---- MODULE Spec2Model ----
(***************************************************************************)
(* Verification model of the per-account scheduler (src/src/scheduler.rs)  *)
(* and of the IMAP idle operations it drives (src/src/imap/idle.rs).       *)
(*                                                                         *)
(* One scheduler owns four task loops (inbox, mvbox, sentbox, smtp).  Each *)
(* task is an async future raced against the receipt of its stop channel;  *)
(* the model takes one step per suspension point of a task, so that the    *)
(* stop can be observed wherever the task is suspended.  All channels have *)
(* capacity 1 (channel(1)); a channel is modelled by its buffer.           *)
(***************************************************************************)
EXTENDS Integers, Naturals, Sequences, FiniteSets, TLC

VARIABLES
    sched,          \* the Scheduler value: "Stopped" or "Running"
    call,           \* lifecycle call in progress: none, start, pre_stop, token, stop
    pc,             \* position of every task loop
    started,        \* start channel of each task has been signalled
    stop_chan,      \* stop channel of each task holds the stop message
    shutdown,       \* shutdown channel of each task holds the acknowledgement
    idle_interrupt, \* idle-interrupt channel of each task (buffer, capacity 1)
    info,           \* the loop-local `info` / `interrupt_info` of inbox and smtp
    jobs_loaded,    \* inbox loop: number of continuously executed jobs
    InboxWatch,     \* value of Config::InboxWatch
    first,          \* history: first envelope offered since the channel was last drained
    net,            \* history: outcome of the last maybe_network not yet observed
    conn,           \* one Imap connection and the fetch_idle or fake_idle call on it
    inner,          \* Config.inner: the registry (selected_account, next_id, accounts)
    file,           \* content of accounts.toml
    accounts,       \* Accounts.accounts: the ids that have a Context in the map
    readers,        \* callers holding the read lock of Config.inner
    caller,         \* the call each clone of the manager is executing
    emitter,        \* the event channels of the accounts and the merged EventEmitter
    now,            \* the wall clock in seconds: time() and SystemTime::now()
    msgs,           \* the rows of the table msgs of one Context
    chats,          \* the column ephemeral_timer of the table chats
    delete_device_after, \* the setting delete_device_after, 0 standing for None
    delete_server_after, \* the setting delete_server_after, Unset standing for None
    ephemeral_task, \* Context.ephemeral_task: a wake task, 0 standing for None
    wake,           \* the wake tasks spawned by schedule_ephemeral_task
    events,         \* the events emitted last by the Context
    ecall           \* the call each task is making into the ephemeral engine

\* the account manager
acctVars == <<inner, file, accounts, readers, caller, emitter>>

\* the ephemeral-message engine of one Context
ephVars == <<now, msgs, chats, delete_device_after,
                   delete_server_after, ephemeral_task, wake,
             events, ecall>>

vars == <<sched, call, pc, started, stop_chan, shutdown, idle_interrupt, info,
          jobs_loaded, InboxWatch, first, net, conn, acctVars, ephVars>>

hist == <<first, net>>

(***************************************************************************)
(* Constants of the program and bounds of the model.                       *)
(***************************************************************************)
\* consecutive-job limit of the inbox loop: `Some(job) if jobs_loaded <= 20`
JobsLimit == 20

\* capacity of every channel created by the connection states: channel(1)
ChannelCap == 1

\* largest message id a caller puts into an envelope (0 stands for None)
MaxMsgId == 1

Tasks == {"inbox", "mvbox", "sentbox", "smtp"}

\* the loops that load and execute jobs
JobTasks == {"inbox", "smtp"}

ImapTasks == {"inbox", "mvbox", "sentbox"}

(***************************************************************************)
(* InterruptInfo { probe_network, msg_id }.                                *)
(***************************************************************************)
InterruptInfo == [probe_network : BOOLEAN, msg_id : 0..MaxMsgId]

new(probe_network, msg_id) == [probe_network |-> probe_network, msg_id |-> msg_id]

\* #[derive(Default)]: probe_network = false, msg_id = None
Default == new(FALSE, 0)

(***************************************************************************)
(* Channel operations (async_std::sync::channel, bounded).                 *)
(***************************************************************************)
\* mutant of try_send: a full channel is overwritten with the newer message
try_send_overwrite(buf, msg) == <<msg>>

\* Sender::try_send: enqueue when there is room, otherwise Err(Full): the
\* message is dropped and the buffer keeps what it holds.
try_send(buf, msg) == IF Len(buf) < ChannelCap THEN Append(buf, msg) ELSE buf

\* positions in which a task is suspended inside its loop future
LoopStates == {"load", "exec", "fetch", "fetch_wait", "fetching", "idle",
               "fake_idle", "wait"}

\* positions in which a task waits in some form of idle and reads the channel
IdleStates == {"idle", "fake_idle", "wait", "fetch_wait"}

(***************************************************************************)
(* The account manager (src/src/accounts.rs): the registry InnerConfig     *)
(* behind Config.inner, its file accounts.toml, and the map of Contexts.   *)
(***************************************************************************)
\* largest account id the allocator hands out in the model
MaxAccountId == 3

\* the events of an account that are told apart, and the events an event
\* channel holds at most in the model
MaxEvents == 2

MaxPending == 2

\* the clones of one Accounts value (they share Config.inner and the map)
Clones == {1, 2, 3}

\* the handles whose calls are recorded: argument, returned value and the
\* state at the start of the call
Recorded == {1}

\* InnerConfig (os_name, the directories and the uuids are left out)
InnerConfig(selected_account, next_id, accs) ==
    [selected_account |-> selected_account, next_id |-> next_id, accounts |-> accs]

\* the ids of the registry entries: inner.accounts.iter().map(|e| e.id)
Ids(cfg) == {cfg.accounts[i] : i \in DOMAIN cfg.accounts}

\* inner.accounts.iter().position(|e| e.id == id), 0 standing for None
position(accs, id) ==
    IF \E i \in DOMAIN accs : accs[i] = id
    THEN CHOOSE i \in DOMAIN accs :
             accs[i] = id /\ \A j \in DOMAIN accs : accs[j] = id => i <= j
    ELSE 0

\* Vec::remove(idx)
remove(accs, idx) == SubSeq(accs, 1, idx - 1) \o SubSeq(accs, idx + 1, Len(accs))

\* mutant of FirstIdOrDefault: the last entry instead of the first
LastIdOrDefault(accs) == IF Len(accs) = 0 THEN 0 ELSE accs[Len(accs)]

\* inner.accounts.get(0).map(|e| e.id).unwrap_or_default()
FirstIdOrDefault(accs) == IF Len(accs) = 0 THEN 0 ELSE accs[1]

\* a file left behind by a write that failed after truncating it
Torn == [content |-> "torn"]

\* the keys of a BTreeMap in iteration order
RECURSIVE keys(_)
keys(map) ==
    IF map = {} THEN <<>>
    ELSE LET least == CHOOSE k \in map : \A j \in map : k <= j
         IN <<least>> \o keys(map \ {least})

\* Accounts::get_all
get_all == keys(accounts)

\* Accounts::get_selected_account: the id of the Context it returns, or the
\* panic of expect("inconsistent state")
get_selected_account ==
    IF inner.selected_account \in accounts
    THEN [panic |-> FALSE, id |-> inner.selected_account]
    ELSE [panic |-> TRUE, id |-> 0]

\* Accounts::open on the directory: the registry read from accounts.toml and
\* a Context for each of its entries
open == [inner |-> file, accounts |-> Ids(file)]

\* a clone that executes no call; `op`, `arg`, `res`, `val` and `err` keep the
\* last call, what it returned and the error of its import, `before` the
\* registry, the map and the file at its start
NoCall ==
    [pc |-> "idle", op |-> "none", arg |-> 0, id |-> 0, sel |-> 0, rid |-> 0,
     old_id |-> 0, k |-> <<>>, r |-> "ok", buf |-> <<>>, err |-> "none",
     res |-> "none", val |-> 0, before |-> <<>>]

\* the event channel of every account, open and empty, no event emitted, and
\* no merged EventEmitter made
NoEmitter ==
    [queue |-> [id \in 1..MaxAccountId |-> <<>>],
     count |-> [id \in 1..MaxAccountId |-> 0],
     closed |-> {}, made |-> FALSE, merged |-> {}, order |-> <<>>,
     delivered |-> <<>>, res |-> "none"]

\* Accounts::new on a directory that does not exist: create (the registry
\* with the default account 1, selected) and open
AccountsNew ==
    /\ inner = InnerConfig(1, 2, <<1>>)
    /\ file = InnerConfig(1, 2, <<1>>)
    /\ accounts = {1}
    /\ readers = {}
    /\ caller = [c \in Clones |-> NoCall]
    /\ emitter = NoEmitter

(***************************************************************************)
(* Data of the ephemeral-message engine of one Context: the rows of msgs,  *)
(* the timers of the chats, the clock, and the wake tasks.                 *)
(***************************************************************************)
\* the trash chat
DC_CHAT_ID_TRASH == 3

\* the largest reserved chat id
DC_CHAT_ID_LAST_SPECIAL == 9

\* lookup_by_contact_id(DC_CONTACT_ID_SELF): the chat with oneself
SelfChat == 11

\* lookup_by_contact_id(DC_CONTACT_ID_DEVICE): the chat of device messages
DeviceChat == 12

\* the chats of the model: the trash, another reserved id, a chat with a
\* contact, the self-chat and the device-chat
ChatIds == {DC_CHAT_ID_TRASH, 7, 10, SelfChat, DeviceChat}

\* ChatId::is_special
is_special(chat_id) == chat_id <= DC_CHAT_ID_LAST_SPECIAL

\* the message rows of the model
MsgIds == {1, 2}

\* last second of the clock in the model
MaxClock == 5

\* largest duration of a Timer value in the model
MaxDuration == 30

\* MessageState: the states in which a message was not seen yet, and two of
\* the others
Unseen == {"InFresh", "InNoticed", "OutDraft"}

MessageState == Unseen \cup {"InSeen", "OutDelivered"}

\* the tasks that call into the engine, and the slots of spawned wake tasks
EphCallers == {1, 2}

TaskIds == {1, 2, 3}

\* Timer::Disabled and Timer::Enabled { duration }
Disabled == [enabled |-> FALSE, duration |-> 0]

Enabled(duration) == [enabled |-> TRUE, duration |-> duration]

\* Timer::to_u32
to_u32(timer) == IF timer.enabled THEN timer.duration ELSE 0

\* Timer::from_u32
from_u32(duration) == IF duration = 0 THEN Disabled ELSE Enabled(duration)

\* get_config_delete_server_after returning None
Unset == -1

\* a row of msgs, not on the server
Msg(chat_id, timestamp, ephemeral_timer, ephemeral_timestamp, state, txt) ==
    [chat_id |-> chat_id, timestamp |-> timestamp,
     ephemeral_timer |-> ephemeral_timer,
     ephemeral_timestamp |-> ephemeral_timestamp, state |-> state, txt |-> txt,
     server_uid |-> 0]

\* a wake task that does not run (never spawned, finished or cancelled)
NoTask == [alive |-> FALSE, until |-> 0, T |-> 0]

\* no event was emitted yet; `n` changes with every event
NoEvents == [log |-> <<>>, n |-> 0]

\* a task that makes no call into the engine; `res`, `emitted`, `before`
\* keep what its last call returned, the events it emitted itself and the
\* rows at its start, `t1` and `t2` the clock values it read, `sent` the
\* outcome of its send_msg, `prev` the result and clock values of the call
\* before it
NoECall ==
    [pc |-> "idle", op |-> "none", arg |-> 0, timer |-> Disabled, ts |-> 0,
     task |-> 0, k |-> <<>>, res |-> "none", emitted |-> <<>>,
     before |-> <<>>, t1 |-> 0, t2 |-> 0, u |-> 0, s |-> <<>>,
     back |-> <<>>, updated |-> FALSE, prev |-> <<>>, sent |-> "no"]

\* a Context without ephemeral messages
ContextNew ==
    /\ now = 1
    /\ msgs = [m \in MsgIds |-> Msg(10, 1, 0, 0, "InFresh", "text")]
    /\ chats = [c \in ChatIds |-> 0]
    /\ delete_device_after = 0
    /\ delete_server_after = Unset
    /\ ephemeral_task = 0
    /\ wake = [t \in TaskIds |-> NoTask]
    /\ events = NoEvents
    /\ ecall = [p \in EphCallers |-> NoECall]

\* an Imap connection on which no call was made, its idle-interrupt channel
\* empty; `log` lists the calls a fetch_idle or fake_idle makes, `polls` the
\* outcomes of the poll ticks of a fake idle, `got` the envelope it received
\* and `from` the wait it returned from, `can_idle` is Imap.config.can_idle
\* as fetch_idle read it and `idle` the Result of Imap::idle
ImapNew ==
    [pc |-> "ready", op |-> "none", folder |-> FALSE, chan |-> <<>>,
     can_idle |-> FALSE, idle |-> "none", log |-> <<>>, polls |-> <<>>,
     got |-> <<>>, from |-> "none", ret |-> <<>>]

(***************************************************************************)
(* Initial state: a scheduler that was never started.                      *)
(***************************************************************************)
SchedulerNew ==
    /\ sched = "Stopped"
    /\ call = "none"
    /\ pc = [t \in Tasks |-> "none"]
    /\ started = [t \in Tasks |-> FALSE]
    /\ stop_chan = [t \in Tasks |-> FALSE]
    /\ shutdown = [t \in Tasks |-> FALSE]
    /\ idle_interrupt = [t \in Tasks |-> <<>>]
    /\ info = [t \in JobTasks |-> Default]
    /\ jobs_loaded = 0
    /\ InboxWatch \in BOOLEAN
    /\ first = [t \in Tasks |-> <<>>]
    /\ net = [t \in Tasks |-> "no"]
    /\ conn = ImapNew

Init ==
    /\ SchedulerNew
    /\ AccountsNew
    /\ ContextNew


(***************************************************************************)
(* Helpers shared by the task actions.                                     *)
(***************************************************************************)
\* mutant of LoopPolled: the loop future is polled before the stop receiver
LoopPolledFirst(t) == TRUE

\* stop_receiver.recv().race(fut): every poll of the task polls the stop
\* receiver first, so the loop future advances only while no stop is pending
LoopPolled(t) == ~stop_chan[t]

\* mutant of FetchIdleEntry: a failed connect is followed by the fetch
FetchIdleEntryFetchesAnyway(folderSet, connectOk) ==
    IF ~folderSet THEN "wait" ELSE "fetching"

\* fetch_idle up to its first wait: folder unset -> fake_idle(None); connect
\* failed -> fake_idle(Some(folder)); otherwise connected and fetching.
FetchIdleEntry(folderSet, connectOk) ==
    IF ~folderSet THEN "wait"
    ELSE IF ~connectOk THEN "fake_idle"
    ELSE "fetching"

\* the state of the scheduler's owner and of the start/stop handshakes
lifeVars == <<sched, call, started, stop_chan, shutdown>>

\* the loop of task t calls job::load_next with the envelope `i`
CallLoadNext(t, i) ==
    /\ pc' = [pc EXCEPT ![t] = "load"]
    /\ info' = [info EXCEPT ![t] = i]

\* mutant of IdleReturned: the loop waits again instead of loading
IdleReturnedWaitsAgain(t, ret, folderSet, connectOk) ==
    /\ pc' = [pc EXCEPT ![t] = "wait"]
    /\ UNCHANGED info

\* an idle of task t returned `ret`: the job loops carry it into load_next,
\* the simple loops drop it and enter fetch_idle again
IdleReturned(t, ret, folderSet, connectOk) ==
    IF t \in JobTasks
    THEN CallLoadNext(t, ret)
    ELSE /\ pc' = [pc EXCEPT ![t] = FetchIdleEntry(folderSet, connectOk)]
         /\ UNCHANGED info

\* the receiving end takes the pending envelope out of the channel
Drain(t) ==
    /\ idle_interrupt' = [idle_interrupt EXCEPT ![t] = <<>>]
    /\ first' = [first EXCEPT ![t] = <<>>]
    /\ net' = [net EXCEPT ![t] = "no"]

(***************************************************************************)
(* Scheduler::start                                                        *)
(***************************************************************************)
\* mutant of AllStarted: only the inbox acknowledgement is awaited
AllStartedInboxOnly == started["inbox"]

\* the try_join of the four start receivers has completed
AllStarted == \A t \in Tasks : started[t]

\* lines 249-310: fresh connection states and start channels, the inbox and
\* smtp loops are spawned, mvbox and sentbox only when their watch flag is
\* set (otherwise their start channel is signalled at once); the scheduler
\* value is assigned Running before the acknowledgements are awaited.
Start(mvboxWatch, sentboxWatch) ==
    /\ call = "none"
    /\ sched = "Stopped"
    /\ sched' = "Running"
    /\ call' = "start"
    /\ pc' = [t \in Tasks |->
                IF t = "mvbox" /\ ~mvboxWatch THEN "none"
                ELSE IF t = "sentbox" /\ ~sentboxWatch THEN "none"
                ELSE "init"]
    /\ started' = [t \in Tasks |->
                     \/ t = "mvbox" /\ ~mvboxWatch
                     \/ t = "sentbox" /\ ~sentboxWatch]
    /\ stop_chan' = [t \in Tasks |-> FALSE]
    /\ shutdown' = [t \in Tasks |-> FALSE]
    /\ idle_interrupt' = [t \in Tasks |-> <<>>]
    /\ info' = [t \in JobTasks |-> Default]
    /\ jobs_loaded' = 0
    /\ first' = [t \in Tasks |-> <<>>]
    /\ net' = [t \in Tasks |-> "no"]
    /\ UNCHANGED InboxWatch
    /\ UNCHANGED <<acctVars, ephVars, conn>>

\* first poll of a spawned loop: started.send(()), then the loop begins
TaskStarted(t, folderSet, connectOk) ==
    /\ pc[t] = "init"
    /\ LoopPolled(t)
    /\ started' = [started EXCEPT ![t] = TRUE]
    /\ IF t \in JobTasks
       THEN CallLoadNext(t, Default)
       ELSE /\ pc' = [pc EXCEPT ![t] = FetchIdleEntry(folderSet, connectOk)]
            /\ UNCHANGED info
    /\ UNCHANGED <<sched, call, stop_chan, shutdown, idle_interrupt,
                   jobs_loaded, InboxWatch, first, net>>
    /\ UNCHANGED <<acctVars, ephVars, conn>>

\* lines 312-323: all four start receivers have received; start returns
StartReturn ==
    /\ call = "start"
    /\ AllStarted
    /\ call' = "none"
    /\ UNCHANGED <<sched, pc, started, stop_chan, shutdown, idle_interrupt,
                   info, jobs_loaded, InboxWatch, hist>>
    /\ UNCHANGED <<acctVars, ephVars, conn>>

(***************************************************************************)
(* inbox_loop                                                              *)
(***************************************************************************)
\* mutant of MayExecute: the limit is off by one more
MayExecuteLoose(n) == n <= JobsLimit + 1

\* `Some(job) if jobs_loaded <= 20`
MayExecute(n) == n <= JobsLimit

\* load_next returned: execute the job, postpone it behind a fetch, or idle
InboxLoadNext(job, folderSet, connectOk) ==
    /\ pc["inbox"] = "load"
    /\ LoopPolled("inbox")
    /\ IF job /\ MayExecute(jobs_loaded)
       THEN /\ jobs_loaded' = jobs_loaded + 1
            /\ pc' = [pc EXCEPT !["inbox"] = "exec"]
            /\ UNCHANGED info
       ELSE IF job
       THEN /\ jobs_loaded' = 0
            /\ IF InboxWatch
               THEN /\ pc' = [pc EXCEPT !["inbox"] =
                                IF folderSet THEN "fetch" ELSE "fetch_wait"]
                    /\ UNCHANGED info
               ELSE CallLoadNext("inbox", info["inbox"])
       ELSE /\ jobs_loaded' = 0
            /\ pc' = [pc EXCEPT !["inbox"] =
                        IF InboxWatch THEN FetchIdleEntry(folderSet, connectOk)
                        ELSE "wait"]
            /\ UNCHANGED info
    /\ UNCHANGED <<lifeVars, idle_interrupt, InboxWatch, first, net>>
    /\ UNCHANGED <<acctVars, ephVars, conn>>

\* fetch() with a configured folder has connected and fetched (or failed)
InboxFetchDone ==
    /\ pc["inbox"] = "fetch"
    /\ LoopPolled("inbox")
    /\ CallLoadNext("inbox", info["inbox"])
    /\ UNCHANGED <<lifeVars, idle_interrupt, jobs_loaded, InboxWatch, first, net>>
    /\ UNCHANGED <<acctVars, ephVars, conn>>

\* fetch() without a folder: fake_idle(None) receives an envelope, which
\* fetch() does not return to the loop
InboxFetchWaitInterrupt ==
    /\ pc["inbox"] = "fetch_wait"
    /\ LoopPolled("inbox")
    /\ idle_interrupt["inbox"] # <<>>
    /\ CallLoadNext("inbox", info["inbox"])
    /\ Drain("inbox")
    /\ UNCHANGED <<lifeVars, jobs_loaded, InboxWatch>>
    /\ UNCHANGED <<acctVars, ephVars, conn>>

(***************************************************************************)
(* smtp_loop                                                               *)
(***************************************************************************)
SmtpLoadNext(job) ==
    /\ pc["smtp"] = "load"
    /\ LoopPolled("smtp")
    /\ pc' = [pc EXCEPT !["smtp"] = IF job THEN "exec" ELSE "wait"]
    /\ UNCHANGED <<lifeVars, idle_interrupt, info, jobs_loaded, InboxWatch,
                   first, net>>
    /\ UNCHANGED <<acctVars, ephVars, conn>>

(***************************************************************************)
(* Steps shared by the loops.                                              *)
(***************************************************************************)
\* perform_job has run to its end; the loop resets its envelope
JobDone(t) ==
    /\ t \in JobTasks
    /\ pc[t] = "exec"
    /\ LoopPolled(t)
    /\ CallLoadNext(t, Default)
    /\ UNCHANGED <<lifeVars, idle_interrupt, jobs_loaded, InboxWatch, first, net>>
    /\ UNCHANGED <<acctVars, ephVars, conn>>

\* fetch_idle: the fetch is over (an error only triggers a reconnect), the
\* session idles when it can and fake-idles otherwise
FetchingDone(t, canIdle) ==
    /\ t \in ImapTasks
    /\ pc[t] = "fetching"
    /\ LoopPolled(t)
    /\ pc' = [pc EXCEPT ![t] = IF canIdle THEN "idle" ELSE "fake_idle"]
    /\ UNCHANGED <<lifeVars, idle_interrupt, info, jobs_loaded, InboxWatch, hist>>
    /\ UNCHANGED <<acctVars, ephVars, conn>>

\* Imap::idle returns without having read the interrupt channel: an early
\* return or error, or a server event (NewData, Timeout, ManualInterrupt)
IdleEvent(t, folderSet, connectOk) ==
    /\ t \in ImapTasks
    /\ pc[t] = "idle"
    /\ LoopPolled(t)
    /\ IdleReturned(t, Default, folderSet, connectOk)
    /\ UNCHANGED <<lifeVars, idle_interrupt, jobs_loaded, InboxWatch, first, net>>
    /\ UNCHANGED <<acctVars, ephVars, conn>>

\* Imap::idle is woken by the interrupt channel; when closing the IDLE fails
\* the error replaces the envelope by InterruptInfo::new(false, None)
IdleInterrupt(t, doneOk, folderSet, connectOk) ==
    /\ t \in ImapTasks
    /\ pc[t] = "idle"
    /\ LoopPolled(t)
    /\ idle_interrupt[t] # <<>>
    /\ IdleReturned(t, IF doneOk THEN Head(idle_interrupt[t]) ELSE new(FALSE, 0),
                    folderSet, connectOk)
    /\ Drain(t)
    /\ UNCHANGED <<lifeVars, jobs_loaded, InboxWatch>>
    /\ UNCHANGED <<acctVars, ephVars, conn>>

\* Imap::fake_idle with a folder: a poll tick that breaks the loop
FakeIdleTick(t, folderSet, connectOk) ==
    /\ t \in ImapTasks
    /\ pc[t] = "fake_idle"
    /\ LoopPolled(t)
    /\ IdleReturned(t, new(FALSE, 0), folderSet, connectOk)
    /\ UNCHANGED <<lifeVars, idle_interrupt, jobs_loaded, InboxWatch, first, net>>
    /\ UNCHANGED <<acctVars, ephVars, conn>>

\* Imap::fake_idle with a folder: the interrupt channel delivers an envelope
FakeIdleInterrupt(t, folderSet, connectOk) ==
    /\ t \in ImapTasks
    /\ pc[t] = "fake_idle"
    /\ LoopPolled(t)
    /\ idle_interrupt[t] # <<>>
    /\ IdleReturned(t, Head(idle_interrupt[t]), folderSet, connectOk)
    /\ Drain(t)
    /\ UNCHANGED <<lifeVars, jobs_loaded, InboxWatch>>
    /\ UNCHANGED <<acctVars, ephVars, conn>>

\* Imap::fake_idle(None) and the smtp fake idle: blocked on the interrupt
\* channel alone
WaitInterrupt(t, folderSet, connectOk) ==
    /\ pc[t] = "wait"
    /\ LoopPolled(t)
    /\ idle_interrupt[t] # <<>>
    /\ IdleReturned(t, Head(idle_interrupt[t]), folderSet, connectOk)
    /\ Drain(t)
    /\ UNCHANGED <<lifeVars, jobs_loaded, InboxWatch>>
    /\ UNCHANGED <<acctVars, ephVars, conn>>


(***************************************************************************)
(* Interrupts                                                              *)
(***************************************************************************)
\* callers holding a shared borrow of the scheduler (interrupt_*,
\* maybe_network, pre_stop) cannot overlap start or stop, which borrow it
\* exclusively
SharedBorrow == call \in {"none", "pre_stop", "token"}

\* ConnectionState::interrupt on the channels of the tasks in `ts`
SendInterrupt(ts, i) ==
    /\ idle_interrupt' = [t \in Tasks |->
           IF t \in ts THEN try_send(idle_interrupt[t], i) ELSE idle_interrupt[t]]
    /\ first' = [t \in Tasks |->
           IF t \in ts /\ first[t] = <<>> THEN <<i>> ELSE first[t]]

\* mutant of Interrupt: the interrupt ends the job the task is performing
InterruptPreempts(t, i) ==
    /\ t \in JobTasks
    /\ SharedBorrow
    /\ sched = "Running"
    /\ SendInterrupt({t}, i)
    /\ pc' = [pc EXCEPT ![t] = IF @ = "exec" THEN "load" ELSE @]
    /\ UNCHANGED <<lifeVars, info, jobs_loaded, InboxWatch, net>>
    /\ UNCHANGED <<acctVars, ephVars, conn>>

\* Context::interrupt_inbox / Context::interrupt_smtp
Interrupt(t, i) ==
    /\ t \in JobTasks
    /\ SharedBorrow
    /\ sched = "Running"
    /\ SendInterrupt({t}, i)
    /\ UNCHANGED <<lifeVars, pc, info, jobs_loaded, InboxWatch, net>>
    /\ UNCHANGED <<acctVars, ephVars, conn>>

\* mutant of MaybeNetwork: the smtp loop is left out of the fan-out
MaybeNetworkSkipsSmtp ==
    /\ SharedBorrow
    /\ sched = "Running"
    /\ SendInterrupt(ImapTasks, new(TRUE, 0))
    /\ net' = [t \in Tasks |->
           IF idle_interrupt[t] = <<>> THEN "sent"
           ELSE IF net[t] = "no" THEN "coalesced"
           ELSE net[t]]
    /\ UNCHANGED <<lifeVars, pc, info, jobs_loaded, InboxWatch>>
    /\ UNCHANGED <<acctVars, ephVars, conn>>

\* Scheduler::maybe_network: InterruptInfo::new(true, None) to all four tasks
MaybeNetwork ==
    /\ SharedBorrow
    /\ sched = "Running"
    /\ SendInterrupt(Tasks, new(TRUE, 0))
    /\ net' = [t \in Tasks |->
           IF idle_interrupt[t] = <<>> THEN "sent"
           ELSE IF net[t] = "no" THEN "coalesced"
           ELSE net[t]]
    /\ UNCHANGED <<lifeVars, pc, info, jobs_loaded, InboxWatch>>
    /\ UNCHANGED <<acctVars, ephVars, conn>>

\* Context::set_config(Config::InboxWatch, ..), read by the inbox loop
SetInboxWatch(b) ==
    /\ b # InboxWatch
    /\ InboxWatch' = b
    /\ UNCHANGED <<lifeVars, pc, idle_interrupt, info, jobs_loaded, hist>>
    /\ UNCHANGED <<acctVars, ephVars, conn>>

(***************************************************************************)
(* Shutdown: Scheduler::pre_stop, the loops' exit, Scheduler::stop         *)
(***************************************************************************)
\* the race of stop_receiver.recv() against the loop future is won by the
\* stop: the loop future is dropped where it is suspended
TaskObserveStop(t) ==
    /\ pc[t] \in LoopStates \cup {"init"}
    /\ stop_chan[t]
    /\ stop_chan' = [stop_chan EXCEPT ![t] = FALSE]
    /\ pc' = [pc EXCEPT ![t] = "exited"]
    \* the locals of the dropped future are gone
    /\ info' = [j \in JobTasks |-> IF j = t THEN Default ELSE info[j]]
    /\ jobs_loaded' = IF t = "inbox" THEN 0 ELSE jobs_loaded
    /\ UNCHANGED <<sched, call, started, shutdown, idle_interrupt,
                   InboxWatch, hist>>
    /\ UNCHANGED <<acctVars, ephVars, conn>>

\* shutdown_sender.send(()) after the race, then the task function returns
TaskShutdownAck(t) ==
    /\ pc[t] = "exited"
    /\ shutdown' = [shutdown EXCEPT ![t] = TRUE]
    /\ pc' = [pc EXCEPT ![t] = "done"]
    /\ UNCHANGED <<sched, call, started, stop_chan, idle_interrupt, info,
                   jobs_loaded, InboxWatch, hist>>
    /\ UNCHANGED <<acctVars, ephVars, conn>>

\* pre_stop, first poll of the join: the four stop_sender.send(()) complete
\* (the buffers are empty; the buffer of a task that was not spawned takes
\* the message although its receiver was dropped at the end of start)
PreStop ==
    /\ call = "none"
    /\ sched = "Running"
    /\ call' = "pre_stop"
    /\ stop_chan' = [t \in Tasks |-> TRUE]
    /\ UNCHANGED <<sched, pc, started, shutdown, idle_interrupt, info,
                   jobs_loaded, InboxWatch, hist>>
    /\ UNCHANGED <<acctVars, ephVars, conn>>

\* mutant of StopDone: ConnectionState::stop does not wait for the loop
StopDoneAtOnce(t) == TRUE

\* mutant of StopDone: the receive needs a message also from a task that was
\* never spawned
StopDoneNeedsAck(t) == shutdown[t]

\* ConnectionState::stop of task t can finish: shutdown_receiver.recv()
\* yields the acknowledgement, or an error (turned into None by ok()) when
\* the task was not spawned and its shutdown sender is dropped
StopDone(t) == pc[t] = "none" \/ shutdown[t]

\* pre_stop returns the StopToken once all four stop() futures are done
PreStopReturn ==
    /\ call = "pre_stop"
    /\ \A t \in Tasks : StopDone(t)
    /\ call' = "token"
    /\ shutdown' = [t \in Tasks |-> FALSE]
    /\ UNCHANGED <<sched, pc, started, stop_chan, idle_interrupt, info,
                   jobs_loaded, InboxWatch, hist>>
    /\ UNCHANGED <<acctVars, ephVars, conn>>

\* Scheduler::stop is called with the token
StopCall ==
    /\ call = "token"
    /\ call' = "stop"
    /\ UNCHANGED <<sched, pc, started, stop_chan, shutdown, idle_interrupt,
                   info, jobs_loaded, InboxWatch, hist>>
    /\ UNCHANGED <<acctVars, ephVars, conn>>

\* handle.await of task t returns: no handle, or the task function returned
Joined(t) == pc[t] \in {"none", "done"}

\* stop has joined every handle and assigns Scheduler::Stopped, which drops
\* the connection states and with them the channels
StopReturn ==
    /\ call = "stop"
    /\ \A t \in Tasks : Joined(t)
    /\ sched' = "Stopped"
    /\ call' = "none"
    /\ stop_chan' = [t \in Tasks |-> FALSE]
    /\ idle_interrupt' = [t \in Tasks |-> <<>>]
    /\ info' = [t \in JobTasks |-> Default]
    /\ jobs_loaded' = 0
    /\ first' = [t \in Tasks |-> <<>>]
    /\ net' = [t \in Tasks |-> "no"]
    /\ UNCHANGED <<pc, started, shutdown, InboxWatch>>
    /\ UNCHANGED <<acctVars, ephVars, conn>>

(***************************************************************************)
(* Operations of the account manager.  A clone executes one call at a      *)
(* time; a step is one critical section of a lock or one operation on the  *)
(* file system.  `k` is the stack of the places the nested calls return    *)
(* to, `r` the result of the call that returned last.                      *)
(***************************************************************************)
schedVars == <<sched, call, pc, started, stop_chan, shutdown, idle_interrupt,
               info, jobs_loaded, InboxWatch, first, net, conn>>

\* the clone `c` is at the place `label` of its call
At(c, label) == caller[c].pc = label

\* mutant of WriteLock: sync releases the read guard before the write, so a
\* writer is not held up by a sync in progress
WriteLockDuringSync == TRUE

\* the write lock of Config.inner can be taken: no sync holds the read lock
WriteLock == readers = {}

\* the call of clone `c` goes on at `label` with the fields `f` changed
Goto(c, label, f) ==
    caller' = [caller EXCEPT ![c] =
                  [x \in DOMAIN NoCall |->
                      IF x = "pc" THEN label
                      ELSE IF x \in DOMAIN f THEN f[x]
                      ELSE caller[c][x]]]

\* a call of clone `c` returns `r`: to the place on top of the stack, or, from
\* the outermost call, to the caller of the manager
Ret(c, r) ==
    IF caller[c].k # <<>>
    THEN Goto(c, Head(caller[c].k),
              [k |-> Tail(caller[c].k), r |-> r, buf |-> <<>>])
    ELSE IF c \in Recorded
    THEN caller' = [caller EXCEPT ![c] =
            [NoCall EXCEPT !.op = caller[c].op, !.arg = caller[c].arg,
                           !.res = r, !.before = caller[c].before,
                           !.err = caller[c].err,
                           !.val = IF r = "ok" THEN caller[c].id ELSE 0]]
    ELSE caller' = [caller EXCEPT ![c] =
            [NoCall EXCEPT !.op = caller[c].op, !.res = r]]

\* expect(..) on an Err or a None: the call panics
Panic(c) ==
    caller' = [caller EXCEPT ![c] =
        [NoCall EXCEPT !.pc = "panicked", !.op = caller[c].op,
                       !.arg = caller[c].arg, !.res = "panic",
                       !.before = caller[c].before]]

\* an idle clone starts the call `op`
Call(c, op, arg, label, f) ==
    /\ caller' = [caller EXCEPT ![c] =
          [x \in DOMAIN NoCall |->
              IF x = "pc" THEN label
              ELSE IF x = "op" THEN op
              ELSE IF x = "arg" /\ c \in Recorded THEN arg
              ELSE IF x = "before" /\ c \in Recorded
                   THEN <<inner, accounts, file>>
              ELSE IF x \in DOMAIN f THEN f[x]
              ELSE NoCall[x]]]
    /\ UNCHANGED <<inner, file, accounts, readers, schedVars, ephVars, emitter>>

\* the calls in progress that have still to allocate their id
Allocating ==
    {c \in Clones : caller[c].pc \in {"mig_check", "mig_old", "imp_old", "new_account"}}

\* the allocator stays within the ids of the model
MayAllocate == inner.next_id + Cardinality(Allocating) <= MaxAccountId

(***************************************************************************)
(* Config::sync, Config::select_account, Config::remove_account,           *)
(* Config::new_account                                                     *)
(***************************************************************************)
\* sync, lines 305-307: the read guard of inner is taken and the registry is
\* serialised; being a temporary of the tail expression the guard is held
\* until the write has ended
SyncLock(c) ==
    /\ At(c, "sync")
    /\ readers' = readers \cup {c}
    /\ Goto(c, "sync_write", [buf |-> inner])
    /\ UNCHANGED <<inner, file, accounts, schedVars, ephVars, emitter>>

\* sync, lines 305-310: fs::write replaces the file by the serialised
\* registry, or fails and leaves the old or a truncated file
SyncWrite(c, ok, torn) ==
    /\ At(c, "sync_write")
    /\ file' = IF ok THEN caller[c].buf ELSE IF torn THEN Torn ELSE file
    /\ readers' = readers \ {c}
    /\ Ret(c, IF ok THEN "ok" ELSE "sync")
    /\ UNCHANGED <<inner, accounts, schedVars, ephVars, emitter>>

\* Config::select_account, lines 396-405, then sync, whose result it returns
ConfigSelectAccount(c) ==
    /\ At(c, "config_select")
    /\ WriteLock
    /\ IF caller[c].sel \in Ids(inner)
       THEN /\ inner' = [inner EXCEPT !.selected_account = caller[c].sel]
            /\ Goto(c, "sync", <<>>)
       ELSE /\ Ret(c, "invalid_id")
            /\ UNCHANGED inner
    /\ UNCHANGED <<file, accounts, readers, schedVars, ephVars, emitter>>

\* mutant of RemoveEntry: the entry is removed and the selection is left alone
RemoveEntryKeepsSelection(cfg, id) ==
    LET idx == position(cfg.accounts, id)
    IN [cfg EXCEPT !.accounts =
            IF idx # 0 THEN remove(cfg.accounts, idx) ELSE cfg.accounts]

\* the registry after lines 366-376 of Config::remove_account
RemoveEntry(cfg, id) ==
    LET idx == position(cfg.accounts, id)
        accs == IF idx # 0 THEN remove(cfg.accounts, idx) ELSE cfg.accounts
    IN [cfg EXCEPT !.accounts = accs,
                   !.selected_account =
                       IF cfg.selected_account = id THEN FirstIdOrDefault(accs)
                       ELSE cfg.selected_account]

\* Config::remove_account, then sync, whose result it returns
ConfigRemoveAccount(c) ==
    /\ At(c, "config_remove")
    /\ WriteLock
    /\ inner' = RemoveEntry(inner, caller[c].rid)
    /\ Goto(c, "sync", <<>>)
    /\ UNCHANGED <<file, accounts, readers, schedVars, ephVars, emitter>>

\* mutant of NewAccount: the allocator skips an id at every allocation
NewAccountSkipsId(c) ==
    /\ At(c, "new_account")
    /\ WriteLock
    /\ inner' = [inner EXCEPT !.accounts = Append(@, inner.next_id),
                              !.next_id = @ + 2]
    /\ Goto(c, "sync", [id |-> inner.next_id,
                        k |-> <<"na_synced">> \o caller[c].k])
    /\ UNCHANGED <<file, accounts, readers, schedVars, ephVars, emitter>>

\* Config::new_account, lines 342-357: allocate the id, push the entry,
\* increment next_id (below 2^32 within the ids of the model), then sync
NewAccount(c) ==
    /\ At(c, "new_account")
    /\ WriteLock
    /\ inner' = [inner EXCEPT !.accounts = Append(@, inner.next_id),
                              !.next_id = @ + 1]
    /\ Goto(c, "sync", [id |-> inner.next_id,
                        k |-> <<"na_synced">> \o caller[c].k])
    /\ UNCHANGED <<file, accounts, readers, schedVars, ephVars, emitter>>

\* mutant of NewAccountSynced: new_account returns without selecting the
\* new account
NewAccountSyncedNoSelect(c) ==
    /\ At(c, "na_synced")
    /\ Ret(c, caller[c].r)
    /\ UNCHANGED <<inner, file, accounts, readers, schedVars, ephVars, emitter>>

\* Config::new_account, lines 357-359: a failed sync is returned, otherwise
\* the new account is selected
NewAccountSynced(c) ==
    /\ At(c, "na_synced")
    /\ IF caller[c].r = "ok"
       THEN Goto(c, "config_select", [sel |-> caller[c].id,
                                      k |-> <<"na_selected">> \o caller[c].k])
       ELSE Ret(c, caller[c].r)
    /\ UNCHANGED <<inner, file, accounts, readers, schedVars, ephVars, emitter>>

\* Config::new_account, lines 359-361: select_account(id).expect("just
\* added") and get_account(id).expect("just added")
NewAccountSelected(c) ==
    /\ At(c, "na_selected")
    /\ IF caller[c].r = "ok" /\ caller[c].id \in Ids(inner)
       THEN Ret(c, "ok")
       ELSE Panic(c)
    /\ UNCHANGED <<inner, file, accounts, readers, schedVars, ephVars, emitter>>

(***************************************************************************)
(* Accounts::select_account, add_account, remove_account                   *)
(***************************************************************************)
\* Accounts::select_account(id)
SelectAccount(c, id) ==
    /\ At(c, "idle")
    /\ Call(c, "select", id, "config_select", [sel |-> id])

\* Accounts::add_account, lines 94-95
AddAccount(c) ==
    /\ At(c, "idle")
    /\ MayAllocate
    /\ Call(c, "add", 0, "new_account", [k |-> <<"add_ctx">>])

\* add_account, lines 95-97: an error of new_account is returned; Context::new
\* opens the database of the new account, or fails and its error is returned
AddAccountContext(c, ctxOk) ==
    /\ At(c, "add_ctx")
    /\ IF caller[c].r # "ok" THEN Ret(c, caller[c].r)
       ELSE IF ctxOk THEN Goto(c, "map_insert", <<>>)
       ELSE Ret(c, "ctx")
    /\ UNCHANGED <<inner, file, accounts, readers, schedVars, ephVars, emitter>>

\* add_account line 98 and migrate_account line 160: the Context is inserted
\* into the map, and the id is returned
MapInsert(c) ==
    /\ At(c, "map_insert")
    /\ accounts' = accounts \cup {caller[c].id}
    /\ Ret(c, "ok")
    /\ UNCHANGED <<inner, file, readers, schedVars, ephVars, emitter>>

\* Accounts::remove_account(id)
RemoveAccount(c, id) ==
    /\ At(c, "idle")
    /\ Call(c, "remove", id, "rm_map", [rid |-> id])

\* mutant of RemoveFromMap: removing an id the map does not hold is not an
\* error
RemoveFromMapIdempotent(c) ==
    /\ At(c, "rm_map")
    /\ accounts' = accounts \ {caller[c].rid}
    /\ Goto(c, "rm_dir", <<>>)
    /\ UNCHANGED <<inner, file, readers, schedVars, ephVars, emitter>>

\* remove_account, lines 105-106: the Context is taken out of the map, or the
\* call fails with "no account with this id"
RemoveFromMap(c) ==
    /\ At(c, "rm_map")
    /\ IF caller[c].rid \in accounts
       THEN /\ accounts' = accounts \ {caller[c].rid}
            /\ Goto(c, "rm_dir", <<>>)
       ELSE /\ Ret(c, "no_account")
            /\ UNCHANGED accounts
    /\ UNCHANGED <<inner, file, readers, schedVars, ephVars, emitter>>

\* remove_account, lines 107-116: stop_io, then the directory of the account
\* is removed when the registry knows the account; a failure is returned
RemoveDir(c, ok) ==
    /\ At(c, "rm_dir")
    /\ IF caller[c].rid \in Ids(inner) /\ ~ok
       THEN Ret(c, "rmdir")
       ELSE Goto(c, "config_remove", <<>>)
    /\ UNCHANGED <<inner, file, accounts, readers, schedVars, ephVars, emitter>>

(***************************************************************************)
(* Accounts::migrate_account                                               *)
(***************************************************************************)
\* migrate_account(dbfile), lines 123-134
MigrateAccount(c) ==
    /\ At(c, "idle")
    /\ MayAllocate
    /\ Call(c, "migrate", 0, "mig_check", <<>>)

\* lines 125-134: the database and its blob directory must exist
MigrateCheck(c, exists) ==
    /\ At(c, "mig_check")
    /\ IF exists THEN Goto(c, "mig_old", <<>>) ELSE Ret(c, "missing")
    /\ UNCHANGED <<inner, file, accounts, readers, schedVars, ephVars, emitter>>

\* line 136-139: the selection is read, then new_account is called
MigrateOldId(c) ==
    /\ At(c, "mig_old")
    /\ Goto(c, "new_account", [old_id |-> inner.selected_account,
                               k |-> <<"mig_fs">>])
    /\ UNCHANGED <<inner, file, accounts, readers, schedVars, ephVars, emitter>>

\* lines 139-161: an error of new_account is returned.  The `?` of
\* create_dir_all and of the two renames (lines 145-147) stand in a plain
\* block, so a failure returns from migrate_account at once: `res` is always
\* Ok and the Err arm (lines 163-175) is never entered.  Then the Context is
\* made, whose failure is returned as well.
MigrateFiles(c, fsOk, ctxOk) ==
    /\ At(c, "mig_fs")
    /\ IF caller[c].r # "ok" THEN Ret(c, caller[c].r)
       ELSE IF ~fsOk THEN Ret(c, "fs")
       ELSE IF ~ctxOk THEN Ret(c, "ctx")
       ELSE Goto(c, "map_insert", <<>>)
    /\ UNCHANGED <<inner, file, accounts, readers, schedVars, ephVars, emitter>>

(***************************************************************************)
(* Accounts::import_account                                                *)
(***************************************************************************)
\* import_account(file)
ImportAccount(c) ==
    /\ At(c, "idle")
    /\ MayAllocate
    /\ Call(c, "import", 0, "imp_old", <<>>)

\* lines 186-188: the selection is read, then add_account is called
ImportOldId(c) ==
    /\ At(c, "imp_old")
    /\ Goto(c, "new_account", [old_id |-> inner.selected_account,
                               k |-> <<"add_ctx", "imp_added">>])
    /\ UNCHANGED <<inner, file, accounts, readers, schedVars, ephVars, emitter>>

\* lines 188-195: an error of add_account is returned; get_account(id)
\* .expect("just added"); the import runs and, when it fails, the account
\* is removed again
ImportRun(c, imexOk) ==
    /\ At(c, "imp_added")
    /\ IF caller[c].r # "ok" THEN Ret(c, caller[c].r)
       ELSE IF caller[c].id \notin accounts THEN Panic(c)
       ELSE IF imexOk THEN Ret(c, "ok")
       ELSE Goto(c, "rm_map", [rid |-> caller[c].id, err |-> "import",
                               k |-> <<"imp_removed">>])
    /\ UNCHANGED <<inner, file, accounts, readers, schedVars, ephVars, emitter>>

\* lines 195-197: an error of remove_account is returned, otherwise the old
\* selection is selected again
ImportRemoved(c) ==
    /\ At(c, "imp_removed")
    /\ IF caller[c].r # "ok" THEN Ret(c, caller[c].r)
       ELSE Goto(c, "config_select", [sel |-> caller[c].old_id,
                                      k |-> <<"imp_selected">>])
    /\ UNCHANGED <<inner, file, accounts, readers, schedVars, ephVars, emitter>>

\* lines 197-198: an error of select_account is returned, otherwise the
\* error of the import
ImportSelected(c) ==
    /\ At(c, "imp_selected")
    /\ Ret(c, IF caller[c].r # "ok" THEN caller[c].r ELSE caller[c].err)
    /\ UNCHANGED <<inner, file, accounts, readers, schedVars, ephVars, emitter>>

(***************************************************************************)
(* Specifications.  The four loops run independently of each other, so the *)
(* full product of their states is explored in parts: each specification   *)
(* runs all the code of the scheduler's lifecycle or of one concern and    *)
(* restricts only what the environment does (which calls are made, how     *)
(* many jobs the job table hands out in a row).                            *)
(***************************************************************************)
\* longest run of consecutive jobs the job table hands to the inbox loop in
\* the specifications that do not study the consecutive-job limit
MaxJobRun == 2

\* steps every loop takes, whatever the concern
LoopNext ==
    \/ \E t \in Tasks, f, c \in BOOLEAN : TaskStarted(t, f, c)
    \/ \E j \in BOOLEAN : SmtpLoadNext(j)
    \/ \E t \in JobTasks : JobDone(t)
    \/ \E t \in ImapTasks, i \in BOOLEAN : FetchingDone(t, i)
    \/ \E t \in ImapTasks, f, c \in BOOLEAN : IdleEvent(t, f, c)
    \/ \E t \in ImapTasks, d, f, c \in BOOLEAN : IdleInterrupt(t, d, f, c)
    \/ \E t \in ImapTasks, f, c \in BOOLEAN : FakeIdleTick(t, f, c)
    \/ \E t \in ImapTasks, f, c \in BOOLEAN : FakeIdleInterrupt(t, f, c)
    \/ \E t \in Tasks, f, c \in BOOLEAN : WaitInterrupt(t, f, c)

\* the inbox loop with a job table that hands out short runs of jobs
InboxShortRuns ==
    \E j, f, c \in BOOLEAN :
        /\ j => jobs_loaded < MaxJobRun
        /\ InboxLoadNext(j, f, c)

\* the exit of the loops
ExitNext ==
    \/ \E t \in Tasks : TaskObserveStop(t)
    \/ \E t \in Tasks : TaskShutdownAck(t)

\* calls of the scheduler's owner
LifeNext ==
    \/ \E m, s \in BOOLEAN : Start(m, s)
    \/ StartReturn
    \/ PreStop
    \/ PreStopReturn
    \/ StopCall
    \/ StopReturn

\* Lifecycle: every combination of the watch flags, repeated
\* start/pre_stop/stop cycles, interrupts from maybe_network.
SchedNext ==
    \/ LoopNext
    \/ InboxShortRuns
    \/ ExitNext
    \/ LifeNext
    \/ MaybeNetwork

SchedSpec == Init /\ [][SchedNext]_vars

\* the scheduling of the runtime: a spawned task that can run is run, and a
\* call whose awaited channels are ready returns
SchedFairness ==
    /\ \A t \in Tasks : WF_vars(\E f, c \in BOOLEAN : TaskStarted(t, f, c))
    /\ \A t \in Tasks : WF_vars(TaskObserveStop(t))
    /\ \A t \in Tasks : WF_vars(TaskShutdownAck(t))
    /\ WF_vars(StartReturn)
    /\ WF_vars(PreStopReturn)
    /\ WF_vars(StopReturn)

\* the liveness runs start from the default configuration (InboxWatch set)
WatchInit == Init /\ InboxWatch = TRUE

SchedLiveSpec == WatchInit /\ [][SchedNext]_vars /\ SchedFairness

\* C1: start returns, a following pre_stop returns without the help of any
\* interrupt, and a following stop returns with the scheduler Stopped and no
\* task loop left running, for every combination of the watch flags, in
\* every state of the tasks and in every cycle.
C1_LifecycleTerminates ==
    /\ (call = "start") ~> (call = "none" /\ sched = "Running")
    /\ (call = "pre_stop") ~> (call = "token")
    /\ (call = "stop") ~> (sched = "Stopped" /\ \A t \in Tasks : Joined(t))

\* a second cycle has been stopped with mvbox never spawned in it
C1_Witness ==
    /\ sched = "Stopped"
    /\ call = "none"
    /\ pc["inbox"] = "done"
    /\ pc["smtp"] = "done"
    /\ pc["mvbox"] = "none"
    /\ pc["sentbox"] = "done"

\* C2 as claimed: the scheduler value is never Running while the start
\* acknowledgement of some task has not been sent.
C2_RunningImpliesAcks ==
    sched = "Running" => \A t \in Tasks : started[t]

\* C2: start returns only after all four start acknowledgements have been
\* sent; the scheduler value is already Running while start still awaits
\* them, so outside a call of start a Running scheduler has all four.
C2_StartReturnsAfterAcks ==
    (sched = "Running" /\ call # "start") => \A t \in Tasks : started[t]

\* start has returned on a scheduler whose sentbox loop was not spawned
C2_Witness ==
    /\ sched = "Running"
    /\ call = "none"
    /\ pc["sentbox"] = "none"
    /\ pc["mvbox"] \in LoopStates
    /\ \A t \in Tasks : started[t]

\* C3: once pre_stop has returned no task is loading or performing a job,
\* fetching or idling, and a loop that has sent its shutdown
\* acknowledgement has left its loop future.
C3_NoWorkAfterPreStop ==
    /\ call \in {"token", "stop"} => \A t \in Tasks : pc[t] \in {"none", "done"}
    /\ \A t \in Tasks : shutdown[t] => pc[t] = "done"

\* pre_stop has returned with three loops ended and sentbox never spawned
C3_Witness ==
    /\ call = "token"
    /\ pc["inbox"] = "done"
    /\ pc["smtp"] = "done"
    /\ pc["mvbox"] = "done"
    /\ pc["sentbox"] = "none"

\* C4 as claimed: a job that is being performed is left only by running to
\* its end, after which the loop loads the next job or observes the stop.
C4_JobRunsToCompletion ==
    [][\A t \in JobTasks :
          (pc[t] = "exec" /\ pc'[t] # "exec") => pc'[t] = "load"]_vars

\* C4: a job of the inbox or smtp loop ends either by running to its end or,
\* when a stop is pending, by being dropped where it is suspended; the loop
\* then sends its shutdown acknowledgement without loading another job.
C4_JobEndsOrIsDropped ==
    [][\A t \in JobTasks :
          /\ (pc[t] = "exec" /\ pc'[t] # "exec") =>
                \/ pc'[t] = "load" /\ ~stop_chan[t]
                \/ pc'[t] = "exited" /\ stop_chan[t]
          /\ (pc[t] = "exec" /\ stop_chan[t]) => pc'[t] \in {"exec", "exited"}
          /\ pc[t] = "exited" => pc'[t] \in {"exited", "done"}]_vars

\* a stop is pending on the inbox loop in the middle of a job, while the
\* smtp loop has already acknowledged its shutdown
C4_Witness ==
    /\ call = "pre_stop"
    /\ pc["smtp"] = "done"
    /\ shutdown["smtp"]
    /\ pc["inbox"] = "exec"
    /\ stop_chan["inbox"]

(***************************************************************************)
(* The inbox loop under a job table that may hand out a job at every call  *)
(* of load_next: the full consecutive-job counter, the postponed job and   *)
(* the fetch inserted for it.  The scheduler is started once with both     *)
(* simple loops off and is not stopped.                                    *)
(***************************************************************************)
JobsNext ==
    \/ Start(FALSE, FALSE)
    \/ StartReturn
    \/ LoopNext
    \/ \E j, f, c \in BOOLEAN : InboxLoadNext(j, f, c)
    \/ InboxFetchDone
    \/ InboxFetchWaitInterrupt
    \/ \E t \in JobTasks, i \in InterruptInfo : Interrupt(t, i)
    \/ \E b \in BOOLEAN : SetInboxWatch(b)

JobsSpec == Init /\ [][JobsNext]_vars

C10_EnvelopeCarried ==
    [][\A t \in JobTasks :
          /\ (/\ pc[t] \in {"wait", "fake_idle", "fetch_wait"}
              /\ idle_interrupt[t] # <<>>
              /\ idle_interrupt'[t] = <<>>
              /\ pc'[t] = "load") => info'[t] = Head(idle_interrupt[t])
          /\ (pc[t] = "exec" /\ pc'[t] = "load") => info'[t] = Default]_vars

(***************************************************************************)
(* Interrupts: a Running scheduler that is not being stopped, every        *)
(* combination of the watch flags, interrupt_inbox and interrupt_smtp with *)
(* a message hint and maybe_network, at every point of the loops.          *)
(***************************************************************************)
IntrNext ==
    \/ \E m, s \in BOOLEAN : Start(m, s)
    \/ StartReturn
    \/ LoopNext
    \/ InboxShortRuns
    \/ \E t \in JobTasks : Interrupt(t, new(FALSE, MaxMsgId))
    \/ MaybeNetwork

IntrSpec == Init /\ [][IntrNext]_vars

\* C6: the idle-interrupt channel of every task holds at most one envelope,
\* and the envelope it holds is the first one sent since the channel was
\* last emptied: the interrupts sent after it were dropped.
C6_Coalescing ==
    \A t \in Tasks :
        /\ Len(idle_interrupt[t]) <= ChannelCap
        /\ idle_interrupt[t] = first[t]

\* the smtp loop is in a job with a message hint pending, and the envelope
\* of a later maybe_network was dropped
C6_Witness ==
    /\ pc["smtp"] = "exec"
    /\ first["smtp"] = <<new(FALSE, MaxMsgId)>>
    /\ net["smtp"] = "coalesced"

\* C7 as claimed: after maybe_network the envelope each task observes next
\* has probe_network = true, whatever was pending at the call.
C7_ProbeAlwaysObserved ==
    \A t \in Tasks :
        net[t] # "no" =>
            idle_interrupt[t] # <<>> /\ Head(idle_interrupt[t]).probe_network

\* C7: maybe_network puts an envelope with probe_network = true into the
\* channel of each of the four tasks whose channel is empty at the call;
\* where an envelope is already pending the new one is dropped and the task
\* observes the pending, earlier envelope next.
C7_ProbeUnlessPending ==
    \A t \in Tasks :
        /\ net[t] = "sent" => idle_interrupt[t] = <<new(TRUE, 0)>>
        /\ net[t] = "coalesced" =>
              idle_interrupt[t] # <<>> /\ idle_interrupt[t] = first[t]

\* maybe_network was called with a message hint pending for the inbox loop
\* and nothing pending for the spawned mvbox loop
C7_Witness ==
    /\ net["inbox"] = "coalesced"
    /\ idle_interrupt["inbox"] = <<new(FALSE, MaxMsgId)>>
    /\ net["mvbox"] = "sent"
    /\ pc["mvbox"] \in LoopStates
    /\ net["smtp"] = "sent"

\* C8: an interrupt sent while the inbox or smtp loop performs a job leaves
\* the task in its job and its loop's envelope untouched and becomes
\* pending; the job ends by its own end (or a stop) with the envelope still
\* pending; an envelope leaves the channel only in an idle, and the blocking
\* fake idle is left only by taking it.
C8_NoPreemption ==
    [][\A t \in JobTasks :
          /\ (pc[t] = "exec" /\ idle_interrupt'[t] # idle_interrupt[t]) =>
                /\ pc'[t] = "exec"
                /\ info'[t] = info[t]
                /\ idle_interrupt[t] = <<>>
                /\ Len(idle_interrupt'[t]) = 1
          /\ (pc[t] = "exec" /\ pc'[t] # "exec") =>
                \/ pc'[t] = "load" /\ idle_interrupt'[t] = idle_interrupt[t]
                \/ stop_chan[t]
          /\ (idle_interrupt[t] # <<>> /\ idle_interrupt'[t] = <<>>
                /\ sched' = sched) => pc[t] \in IdleStates
          /\ (pc[t] = "wait" /\ pc'[t] # "wait" /\ ~stop_chan[t]) =>
                idle_interrupt[t] # <<>> /\ idle_interrupt'[t] = <<>>]_vars

\* both job loops are in a job with an envelope pending
C8_Witness ==
    /\ pc["inbox"] = "exec"
    /\ idle_interrupt["inbox"] = <<new(TRUE, 0)>>
    /\ pc["smtp"] = "exec"
    /\ idle_interrupt["smtp"] = <<new(FALSE, MaxMsgId)>>

(***************************************************************************)
(* Wake-up: the inbox and smtp loops of a Running scheduler that is not    *)
(* stopped, with interrupts at every point of the loops.  Every job and    *)
(* every fetch ends, load_next returns, and a receive on a channel that    *)
(* holds an envelope completes; server events and poll ticks need not come.*)
(***************************************************************************)
WakeNext ==
    \/ Start(FALSE, FALSE)
    \/ StartReturn
    \/ LoopNext
    \/ \E j, f, c \in BOOLEAN : InboxLoadNext(j, f, c)
    \/ InboxFetchDone
    \/ InboxFetchWaitInterrupt
    \/ \E t \in JobTasks : Interrupt(t, new(FALSE, MaxMsgId))
    \/ MaybeNetwork
    \/ \E b \in BOOLEAN : SetInboxWatch(b)

WakeFairness ==
    /\ \A t \in JobTasks : WF_vars(\E f, c \in BOOLEAN : TaskStarted(t, f, c))
    /\ \A t \in JobTasks : WF_vars(JobDone(t))
    /\ \A t \in JobTasks : WF_vars(\E f, c \in BOOLEAN : WaitInterrupt(t, f, c))
    /\ WF_vars(\E j, f, c \in BOOLEAN : InboxLoadNext(j, f, c))
    /\ WF_vars(InboxFetchDone)
    /\ WF_vars(InboxFetchWaitInterrupt)
    /\ WF_vars(\E j \in BOOLEAN : SmtpLoadNext(j))
    /\ WF_vars(\E i \in BOOLEAN : FetchingDone("inbox", i))
    /\ WF_vars(\E d, f, c \in BOOLEAN : IdleInterrupt("inbox", d, f, c))
    /\ WF_vars(\E f, c \in BOOLEAN : FakeIdleInterrupt("inbox", f, c))

WakeSpec == Init /\ [][WakeNext]_vars /\ WakeFairness

\* C5: after interrupt_inbox or interrupt_smtp (the channel then holds an
\* envelope, the new one or an earlier one) the loop calls load_next again:
\* from a job, a fetch or an idle it reaches load_next, and a load_next
\* that is in progress returns and is followed by another one.
C5_WakeUp ==
    \A t \in JobTasks :
        /\ (idle_interrupt[t] # <<>> /\ pc[t] \in LoopStates \ {"load"})
              ~> (pc[t] = "load")
        /\ (idle_interrupt[t] # <<>> /\ pc[t] = "load")
              ~> (pc[t] \in LoopStates \ {"load"})

\* an interrupt has reached the inbox loop while it is blocked in a fake
\* idle and the smtp loop while it performs a job
C5_Witness ==
    /\ pc["inbox"] = "wait"
    /\ idle_interrupt["inbox"] # <<>>
    /\ pc["smtp"] = "exec"
    /\ idle_interrupt["smtp"] # <<>>

(***************************************************************************)
(* The account manager used by one caller: every call with every failure   *)
(* of the file system, of Context::new and of the import.                  *)
(***************************************************************************)
\* the steps of the call of clone `c`, whatever the call
CallSteps(c) ==
    \/ SyncLock(c)
    \/ \E ok, torn \in BOOLEAN : SyncWrite(c, ok, torn)
    \/ ConfigSelectAccount(c)
    \/ ConfigRemoveAccount(c)
    \/ NewAccount(c)
    \/ NewAccountSynced(c)
    \/ NewAccountSelected(c)
    \/ \E ok \in BOOLEAN : AddAccountContext(c, ok)
    \/ MapInsert(c)
    \/ RemoveFromMap(c)
    \/ \E ok \in BOOLEAN : RemoveDir(c, ok)
    \/ \E ok \in BOOLEAN : MigrateCheck(c, ok)
    \/ MigrateOldId(c)
    \/ \E fsOk, ctxOk \in BOOLEAN : MigrateFiles(c, fsOk, ctxOk)
    \/ ImportOldId(c)
    \/ \E ok \in BOOLEAN : ImportRun(c, ok)
    \/ ImportRemoved(c)
    \/ ImportSelected(c)

\* the calls clone `c` can make; ids from 0 to one past the allocator
Calls(c) ==
    \/ \E id \in 0..MaxAccountId + 1 : SelectAccount(c, id)
    \/ \E id \in 0..MaxAccountId + 1 : RemoveAccount(c, id)
    \/ AddAccount(c)
    \/ MigrateAccount(c)
    \/ ImportAccount(c)

AcctNext == Calls(1) \/ CallSteps(1)

AcctSpec == Init /\ [][AcctNext]_vars

(***************************************************************************)
(* Claims about the account manager                                        *)
(***************************************************************************)
\* the ids of the entries of `cfg` are pairwise distinct and below next_id,
\* and selected_account is 0 or the id of an entry
RegistryConsistent(cfg) ==
    /\ \A i, j \in DOMAIN cfg.accounts :
           cfg.accounts[i] = cfg.accounts[j] => i = j
    /\ \A i \in DOMAIN cfg.accounts : cfg.accounts[i] < cfg.next_id
    /\ \/ cfg.selected_account = 0
       \/ \E i \in DOMAIN cfg.accounts : cfg.accounts[i] = cfg.selected_account

\* C11: in every state of the manager, also inside calls and after calls that
\* returned an error, the ids of the registry entries are pairwise distinct
\* and all smaller than next_id, selected_account is 0 or the id of an entry,
\* and no step decreases next_id
C11_RegistryInvariant ==
    /\ RegistryConsistent(inner)
    /\ [][/\ RegistryConsistent(inner')
          /\ inner'.next_id >= inner.next_id]_vars

\* a migration failed after account 2 had been removed: the registry holds
\* the accounts 1 and 3, and the id 2 is not given out again
C11_Witness ==
    /\ caller[1].pc = "idle"
    /\ caller[1].op = "migrate"
    /\ caller[1].res = "fs"
    /\ inner.accounts = <<1, 3>>
    /\ inner.next_id = 4

\* no call of the manager is in progress
Quiescent == \A c \in Clones : caller[c].pc = "idle"

\* C12: whenever no call is in progress and the manager holds at least one
\* account, get_selected_account returns the account whose id is the
\* selected_account of the registry, without panicking
C12_SelectedAccountTotal ==
    (Quiescent /\ accounts # {}) =>
        /\ ~get_selected_account.panic
        /\ get_selected_account.id = inner.selected_account

\* C13: when migrate_account has returned the error of create_dir_all or of
\* a rename, the account list and the selection of the registry, and the
\* account map, are those of before the call
C13_MigrateRollback ==
    \A c \in Recorded :
        (caller[c].pc = "idle" /\ caller[c].op = "migrate" /\ caller[c].res = "fs") =>
            /\ inner.accounts = caller[c].before[1].accounts
            /\ inner.selected_account = caller[c].before[1].selected_account
            /\ accounts = caller[c].before[2]

\* C14: when the import of import_account has failed and the removal of the
\* added account met no further failure of the file system, import_account
\* returns the error of the import, and the account map and the account list
\* and selection of the registry are those of before the call
C14_ImportUndo ==
    \A c \in Recorded :
        (/\ caller[c].pc = "idle"
         /\ caller[c].op = "import"
         /\ caller[c].err = "import"
         /\ caller[c].res \notin {"rmdir", "sync"}) =>
            /\ caller[c].res = "import"
            /\ accounts = caller[c].before[2]
            /\ inner.accounts = caller[c].before[1].accounts
            /\ inner.selected_account = caller[c].before[1].selected_account

\* the smallest id of the registry `cfg` besides `id`, or 0 when there is none
SmallestRemaining(cfg, id) ==
    LET rest == Ids(cfg) \ {id}
    IN IF rest = {} THEN 0
       ELSE CHOOSE m \in rest : \A n \in rest : m <= n

\* C15: when remove_account(id) has returned Ok and id was the selected
\* account, selected_account is the smallest id of the remaining registry
\* entries, or 0 when none remains; when id was not the selected account,
\* selected_account is the one of before the call, whatever the call returned
C15_RemoveReselects ==
    \A c \in Recorded :
        (caller[c].pc = "idle" /\ caller[c].op = "remove") =>
            LET old == caller[c].before[1]
            IN IF old.selected_account = caller[c].arg
               THEN caller[c].res = "ok" =>
                        inner.selected_account =
                            SmallestRemaining(old, caller[c].arg)
               ELSE inner.selected_account = old.selected_account

\* the selected account 1 of three was removed: account 2 is selected
C15_Witness ==
    /\ caller[1].pc = "idle"
    /\ caller[1].op = "remove"
    /\ caller[1].res = "ok"
    /\ caller[1].arg = 1
    /\ caller[1].before[1].selected_account = 1
    /\ caller[1].before[1].accounts = <<1, 2, 3>>
    /\ inner.selected_account = 2

\* C16: when add_account has returned Ok(id), id is the next_id of before the
\* call, the registry entries are those of before the call followed by one
\* entry with that id, next_id is greater by one, the new account is the
\* selected one, and the account map is the one of before the call with a
\* Context under id
C16_AddAccount ==
    \A c \in Recorded :
        (caller[c].pc = "idle" /\ caller[c].op = "add" /\ caller[c].res = "ok") =>
            LET old == caller[c].before[1]
                id == caller[c].val
            IN /\ id = old.next_id
               /\ inner.accounts = old.accounts \o <<id>>
               /\ inner.next_id = old.next_id + 1
               /\ inner.selected_account = id
               /\ id \notin caller[c].before[2]
               /\ accounts = caller[c].before[2] \cup {id}

\* a third account was added while account 1 was the selected one
C16_Witness ==
    /\ caller[1].pc = "idle"
    /\ caller[1].op = "add"
    /\ caller[1].res = "ok"
    /\ caller[1].val = 3
    /\ caller[1].before[1] = InnerConfig(1, 3, <<1, 2>>)
    /\ inner = InnerConfig(3, 4, <<1, 2, 3>>)
    /\ accounts = {1, 2, 3}

(***************************************************************************)
(* A freshly created registry to which accounts are only added, through    *)
(* either handle, every operation on the file system succeeding            *)
(***************************************************************************)
FreshSteps(c) ==
    \/ NewAccount(c)
    \/ SyncLock(c)
    \/ SyncWrite(c, TRUE, FALSE)
    \/ NewAccountSynced(c)
    \/ ConfigSelectAccount(c)
    \/ NewAccountSelected(c)
    \/ AddAccountContext(c, TRUE)
    \/ MapInsert(c)

FreshNext == \E c \in Clones : AddAccount(c) \/ FreshSteps(c)

FreshSpec == Init /\ [][FreshNext]_vars

\* the sequence 1, 2, .., n
UpTo(n) == [i \in 1..n |-> i]

\* C17: on a fresh registry to which accounts were only added, once every
\* call has returned and N accounts exist, the registry holds exactly the
\* ids 1..N, next_id is N+1, and get_all returns 1..N in strictly
\* increasing order
C17_ContiguousSortedIds ==
    Quiescent =>
        LET N == Cardinality(accounts)
        IN /\ Len(inner.accounts) = N
           /\ Ids(inner) = 1..N
           /\ inner.accounts = UpTo(N)
           /\ inner.next_id = N + 1
           /\ Len(get_all) = N
           /\ \A i \in 1..N : get_all[i] = i
           /\ \A i, j \in 1..N : i < j => get_all[i] < get_all[j]

\* as many accounts exist as the model has ids, the last one added through
\* the recorded handle after the second handle had added one
C17_Witness ==
    /\ Quiescent
    /\ Cardinality(accounts) = MaxAccountId
    /\ caller[2].op = "add"
    /\ caller[2].res = "ok"
    /\ caller[1].op = "add"
    /\ caller[1].res = "ok"
    /\ caller[1].val = MaxAccountId

(***************************************************************************)
(* The mutating calls made concurrently through the two handles of the     *)
(* manager that are not recorded; the writes of the registry file succeed  *)
(***************************************************************************)
ConcSteps(c) ==
    \/ NewAccount(c)
    \/ SyncLock(c)
    \/ SyncWrite(c, TRUE, FALSE)
    \/ NewAccountSynced(c)
    \/ ConfigSelectAccount(c)
    \/ ConfigRemoveAccount(c)
    \/ NewAccountSelected(c)
    \/ \E ctxOk \in BOOLEAN : AddAccountContext(c, ctxOk)
    \/ MapInsert(c)
    \/ RemoveFromMap(c)
    \/ \E ok \in BOOLEAN : RemoveDir(c, ok)
    \/ \E exists \in BOOLEAN : MigrateCheck(c, exists)
    \/ MigrateOldId(c)
    \/ \E fsOk, ctxOk \in BOOLEAN : MigrateFiles(c, fsOk, ctxOk)

ConcCalls(c) ==
    \/ \E id \in 1..MaxAccountId : SelectAccount(c, id)
    \/ \E id \in 1..MaxAccountId : RemoveAccount(c, id)
    \/ AddAccount(c)
    \/ MigrateAccount(c)

ConcNext == \E c \in Clones \ Recorded : ConcCalls(c) \/ ConcSteps(c)

ConcSpec == WatchInit /\ [][ConcNext]_vars

C19_UnknownIdRejected ==
    \A c \in Recorded :
        (/\ caller[c].pc = "idle"
         /\ \/ /\ caller[c].op = "select"
               /\ caller[c].arg \notin Ids(caller[c].before[1])
            \/ /\ caller[c].op = "remove"
               /\ caller[c].arg \notin caller[c].before[2]) =>
            /\ caller[c].res \in {"invalid_id", "no_account"}
            /\ inner = caller[c].before[1]
            /\ accounts = caller[c].before[2]
            /\ file = caller[c].before[3]

\* remove_account(3) was called on a manager that holds the accounts 1 and 2
C19_Witness ==
    /\ caller[1].pc = "idle"
    /\ caller[1].op = "remove"
    /\ caller[1].arg = 3
    /\ caller[1].res = "no_account"
    /\ accounts = {1, 2}
    /\ inner = InnerConfig(2, 3, <<1, 2>>)

\* C20: when remove_account(id) has returned the error of the removal of the
\* directory, the account is still in the account map and in the registry,
\* and selected_account is the one of before the call
C20_RemoveFailureRollback ==
    \A c \in Recorded :
        (caller[c].pc = "idle" /\ caller[c].op = "remove" /\ caller[c].res = "rmdir") =>
            /\ caller[c].arg \in accounts
            /\ caller[c].arg \in Ids(inner)
            /\ inner.selected_account = caller[c].before[1].selected_account

(***************************************************************************)
(* Accounts::new on a directory that does not exist yet: create, then      *)
(* open.  `file` is NoDir while the directory does not exist and NoFile    *)
(* while it exists without accounts.toml.  No handle is usable before open *)
(* has returned one.                                                       *)
(***************************************************************************)
NoDir == [content |-> "nodir"]

NoFile == [content |-> "nofile"]

\* before Accounts::new: nothing on disk, no manager
NothingCreated ==
    /\ inner = InnerConfig(0, 1, <<>>)
    /\ file = NoDir
    /\ accounts = {}
    /\ readers = {}
    /\ caller = [c \in Clones |-> [NoCall EXCEPT !.pc = "unopened"]]
    /\ emitter = NoEmitter

CreateInit ==
    /\ SchedulerNew
    /\ NothingCreated
    /\ ContextNew

\* Accounts::new returns the error `r` of create or of open
NewFailed(c, r) ==
    caller' = [caller EXCEPT ![c] =
        [NoCall EXCEPT !.pc = "unopened", !.op = "new", !.res = r]]

\* Accounts::new, lines 27-31: create is called when the directory does not
\* exist, then open
New(c) ==
    /\ \A d \in Clones : At(d, "unopened")
    /\ caller' = [caller EXCEPT ![c] =
          [NoCall EXCEPT !.op = "new",
                         !.pc = IF file = NoDir THEN "create_dir" ELSE "open"]]
    /\ UNCHANGED <<inner, file, accounts, readers, schedVars, ephVars, emitter>>

\* create, lines 36-38: create_dir_all
CreateDir(c, ok) ==
    /\ At(c, "create_dir")
    /\ IF ok
       THEN /\ file' = NoFile
            /\ Goto(c, "config_new", <<>>)
       ELSE /\ NewFailed(c, "mkdir")
            /\ UNCHANGED file
    /\ UNCHANGED <<inner, accounts, readers, schedVars, ephVars, emitter>>

\* Config::new, lines 284-294: the empty registry, then sync
ConfigNew(c) ==
    /\ At(c, "config_new")
    /\ inner' = InnerConfig(0, 1, <<>>)
    /\ Goto(c, "sync", [k |-> <<"create_cfg">>])
    /\ UNCHANGED <<file, accounts, readers, schedVars, ephVars, emitter>>

\* create, lines 41-42: Config::new(..)?, then new_account
CreateAccount(c) ==
    /\ At(c, "create_cfg")
    /\ IF caller[c].r = "ok"
       THEN Goto(c, "new_account", [k |-> <<"create_ctx">>])
       ELSE NewFailed(c, caller[c].r)
    /\ UNCHANGED <<inner, file, accounts, readers, schedVars, ephVars, emitter>>

\* create, lines 42-48: new_account(..)?, then Context::new(..)? of the
\* default account; no error path removes anything
CreateContext(c, ctxOk) ==
    /\ At(c, "create_ctx")
    /\ IF caller[c].r # "ok" THEN NewFailed(c, caller[c].r)
       ELSE IF ctxOk THEN Goto(c, "open", <<>>)
       ELSE NewFailed(c, "ctx")
    /\ UNCHANGED <<inner, file, accounts, readers, schedVars, ephVars, emitter>>

\* Accounts::open, lines 53-67: the directory and accounts.toml must exist,
\* the file must parse, and a Context is made for every entry
Open(c, ctxOk) ==
    /\ At(c, "open")
    /\ IF file \in {NoDir, NoFile, Torn} \/ ~ctxOk
       THEN /\ NewFailed(c, "open")
            /\ UNCHANGED <<inner, accounts>>
       ELSE /\ inner' = open.inner
            /\ accounts' = open.accounts
            /\ caller' = [d \in Clones |->
                   IF d = c THEN [NoCall EXCEPT !.op = "new", !.res = "ok"]
                   ELSE NoCall]
    /\ UNCHANGED <<file, readers, schedVars, ephVars, emitter>>

NewSteps(c) ==
    \/ New(c)
    \/ \E ok \in BOOLEAN : CreateDir(c, ok)
    \/ ConfigNew(c)
    \/ CreateAccount(c)
    \/ \E ctxOk \in BOOLEAN : CreateContext(c, ctxOk)
    \/ \E ctxOk \in BOOLEAN : Open(c, ctxOk)

CreateNext == NewSteps(1) \/ AcctNext

CreateSpec == CreateInit /\ [][CreateNext]_vars

\* C21: whenever Accounts::new has returned an error of create, the
\* directory does not exist
C21_CreateCleanup ==
    (/\ caller[1].pc = "unopened"
     /\ caller[1].op = "new"
     /\ caller[1].res \in {"mkdir", "sync", "ctx"}) =>
        file = NoDir

(***************************************************************************)
(* Operations of the ephemeral-message engine.  A task makes one call at   *)
(* a time; a step is one SQL statement, one access of the field            *)
(* ephemeral_task, or one emitted event.                                   *)
(***************************************************************************)
EAt(p, label) == ecall[p].pc = label

\* the call of task `p` goes on at `label` with the fields `f` changed
EGoto(p, label, f) ==
    ecall' = [ecall EXCEPT ![p] =
                 [x \in DOMAIN NoECall |->
                     IF x = "pc" THEN label
                     ELSE IF x \in DOMAIN f THEN f[x]
                     ELSE ecall[p][x]]]

(***************************************************************************)
(* Timer: conversion to and from u32 and strings.  A string is the         *)
(* sequence of its characters.                                             *)
(***************************************************************************)
Digits == <<"0", "1", "2", "3", "4", "5", "6", "7", "8", "9">>

\* u32::to_string: the decimal digits, most significant first
RECURSIVE u32_to_string(_)
u32_to_string(n) ==
    IF n < 10 THEN <<Digits[n + 1]>>
    ELSE u32_to_string(n \div 10) \o <<Digits[(n % 10) + 1]>>

\* the value of a decimal digit, -1 for any other character
digit_value(ch) ==
    IF \E i \in 1..10 : Digits[i] = ch
    THEN (CHOOSE i \in 1..10 : Digits[i] = ch) - 1
    ELSE -1

\* str::parse::<u32> on a string of digits: ParseIntError on the empty
\* string and on a character that is no digit
RECURSIVE parse_u32(_)
parse_u32(s) ==
    IF s = <<>> THEN [ok |-> FALSE, val |-> 0]
    ELSE LET d == digit_value(s[Len(s)])
         IN IF d < 0 THEN [ok |-> FALSE, val |-> 0]
            ELSE IF Len(s) = 1 THEN [ok |-> TRUE, val |-> d]
            ELSE LET hi == parse_u32(SubSeq(s, 1, Len(s) - 1))
                 IN IF hi.ok THEN [ok |-> TRUE, val |-> hi.val * 10 + d]
                    ELSE hi

\* <Timer as ToString>::to_string
to_string(timer) == u32_to_string(to_u32(timer))

\* <Timer as FromStr>::from_str
from_str(input) ==
    LET n == parse_u32(input)
    IN IF n.ok THEN [ok |-> TRUE, val |-> from_u32(n.val)]
       ELSE [ok |-> FALSE, val |-> Disabled]

\* the values of the type Timer with a duration of the model
Timers == {Disabled} \cup {Enabled(d) : d \in 0..MaxDuration}

\* a task holds a Timer value
TimerInit ==
    /\ SchedulerNew
    /\ InboxWatch = TRUE
    /\ AccountsNew
    /\ now = 1
    /\ msgs = [m \in MsgIds |-> Msg(10, 1, 0, 0, "InFresh", "text")]
    /\ chats = [c \in ChatIds |-> 0]
    /\ delete_device_after = 0
    /\ delete_server_after = Unset
    /\ ephemeral_task = 0
    /\ wake = [t \in TaskIds |-> NoTask]
    /\ events = NoEvents
    /\ \E timer \in Timers :
           ecall = [p \in EphCallers |->
                       IF p = 1 THEN [NoECall EXCEPT !.pc = "timer", !.timer = timer]
                       ELSE NoECall]

ephData == <<now, msgs, chats, delete_device_after,
                   delete_server_after, ephemeral_task, wake, events>>

\* timer.to_u32()
TimerToU32(p) ==
    /\ EAt(p, "timer")
    /\ EGoto(p, "u32", [u |-> to_u32(ecall[p].timer)])
    /\ UNCHANGED <<schedVars, acctVars, ephData>>

\* Timer::from_u32(..) of the number
TimerFromU32(p) ==
    /\ EAt(p, "u32")
    /\ EGoto(p, "timer_again", [back |-> <<from_u32(ecall[p].u)>>])
    /\ UNCHANGED <<schedVars, acctVars, ephData>>

\* timer.to_string()
TimerToString(p) ==
    /\ EAt(p, "timer_again")
    /\ EGoto(p, "string", [s |-> to_string(ecall[p].timer)])
    /\ UNCHANGED <<schedVars, acctVars, ephData>>

\* Timer::from_str(..) of the string
TimerFromStr(p) ==
    /\ EAt(p, "string")
    /\ EGoto(p, "converted", [back |-> ecall[p].back \o <<from_str(ecall[p].s)>>])
    /\ UNCHANGED <<schedVars, acctVars, ephData>>

TimerNext ==
    TimerToU32(1) \/ TimerFromU32(1) \/ TimerToString(1) \/ TimerFromStr(1)

TimerSpec == TimerInit /\ [][TimerNext]_vars

\* C29: for every Timer value t, Timer::from_u32(t.to_u32()) is t and
\* Timer::from_str(t.to_string()) is Ok(t)
C29_TimerRoundTrip ==
    EAt(1, "converted") =>
        /\ ecall[1].back[1] = ecall[1].timer
        /\ ecall[1].back[2] = [ok |-> TRUE, val |-> ecall[1].timer]

(***************************************************************************)
(* schedule_ephemeral_task and the wake tasks                              *)
(***************************************************************************)
\* an event; `by` tells whether a wake task or a call of the engine emitted it
Event(type, chat_id, arg, by) ==
    [type |-> type, chat_id |-> chat_id, arg |-> arg, by |-> by]

\* EventType::MsgsChanged { chat_id: 0, msg_id: 0 }
MsgsChanged(by) == Event("MsgsChanged", 0, 0, by)

\* emit_event!: the event becomes the one emitted last
Emit(ev) == [log |-> <<ev>>, n |-> 1 - events.n]

\* a call of task `p` returns `r`: to the place on top of the stack, or, from
\* the outermost call, to the task
ERet(p, r, f) ==
    IF ecall[p].k # <<>>
    THEN EGoto(p, Head(ecall[p].k), [k |-> Tail(ecall[p].k)] @@ f)
    ELSE EGoto(p, "idle", [res |-> r, ts |-> 0, task |-> 0] @@ f)

\* a task starts the call `op`
ECall(p, op, arg, label, f) ==
    ecall' = [ecall EXCEPT ![p] =
        [x \in DOMAIN NoECall |->
            IF x = "pc" THEN label
            ELSE IF x = "op" THEN op
            ELSE IF x = "arg" THEN arg
            ELSE IF x = "before" THEN msgs
            ELSE IF x \in DOMAIN f THEN f[x]
            ELSE NoECall[x]]]

\* the rows the query of schedule_ephemeral_task selects from
Armed == {m \in MsgIds : /\ msgs[m].ephemeral_timestamp # 0
                         /\ msgs[m].chat_id # DC_CHAT_ID_TRASH}

\* SELECT ephemeral_timestamp .. ORDER BY ephemeral_timestamp ASC LIMIT 1,
\* 0 standing for None
EarliestTimestamp ==
    IF Armed = {} THEN 0
    ELSE LET m == CHOOSE m \in Armed : \A o \in Armed :
                     msgs[m].ephemeral_timestamp <= msgs[o].ephemeral_timestamp
         IN msgs[m].ephemeral_timestamp

\* mutant of Until: the task sleeps until the timestamp itself
UntilTimestamp(ephemeral_timestamp) == ephemeral_timestamp

\* until = UNIX_EPOCH + ephemeral_timestamp s + 1 s
Until(ephemeral_timestamp) == ephemeral_timestamp + 1

\* the wake tasks that are neither finished nor cancelled
Alive == {t \in TaskIds : wake[t].alive}

\* the slots a new wake task can take
FreeTasks ==
    {t \in TaskIds : /\ ~wake[t].alive
                     /\ ephemeral_task # t
                     /\ \A p \in EphCallers : ecall[p].task # t}

\* a task calls schedule_ephemeral_task
ScheduleEphemeralTask(p) ==
    /\ EAt(p, "idle")
    /\ ECall(p, "schedule", 0, "sched", <<>>)
    /\ UNCHANGED <<schedVars, acctVars, ephData>>

\* lines 344-362: the earliest timestamp outside the trash; when the query
\* fails the function returns
ScheduleQuery(p, ok) ==
    /\ EAt(p, "sched")
    /\ IF ok THEN EGoto(p, "sched_cancel", [ts |-> EarliestTimestamp])
       ELSE ERet(p, "ok", <<>>)
    /\ UNCHANGED <<schedVars, acctVars, ephData>>

\* lines 365-367: the task of the field is taken out and cancelled, the
\* write guard of the field being held for both
ScheduleCancel(p) ==
    /\ EAt(p, "sched_cancel")
    /\ ephemeral_task' = 0
    /\ wake' = [t \in TaskIds |-> IF t = ephemeral_task THEN NoTask ELSE wake[t]]
    /\ EGoto(p, "sched_spawn", <<>>)
    /\ UNCHANGED <<schedVars, acctVars, now, msgs, chats, delete_device_after,
                   delete_server_after,
                   events>>

\* lines 369-398: nothing to do without a timestamp; a task that sleeps
\* until `until` is spawned when until.duration_since(now) is Ok; otherwise
\* the event is emitted at once.  `late` tells whether SystemTime::now() is
\* past the full second.
ScheduleSpawn(p, late) ==
    /\ EAt(p, "sched_spawn")
    /\ IF ecall[p].ts = 0
       THEN /\ ERet(p, "ok", <<>>)
            /\ UNCHANGED <<wake, events>>
       ELSE IF Until(ecall[p].ts) > now \/ (Until(ecall[p].ts) = now /\ ~late)
       THEN /\ FreeTasks # {}
            /\ LET t == CHOOSE t \in FreeTasks : \A o \in FreeTasks : t <= o
               IN /\ wake' = [wake EXCEPT ![t] =
                                 [alive |-> TRUE, until |-> Until(ecall[p].ts),
                                  T |-> ecall[p].ts]]
                  /\ EGoto(p, "sched_store", [task |-> t])
            /\ UNCHANGED events
       ELSE /\ events' = Emit(MsgsChanged("call"))
            /\ ERet(p, "ok", [emitted |-> Append(ecall[p].emitted, "MsgsChanged")])
            /\ UNCHANGED wake
    /\ UNCHANGED <<schedVars, acctVars, now, msgs, chats, delete_device_after,
                   delete_server_after,
                   ephemeral_task>>

\* line 388: the handle is stored in the field; a handle that was there is
\* dropped, which detaches its task without cancelling it
ScheduleStore(p) ==
    /\ EAt(p, "sched_store")
    /\ ephemeral_task' = ecall[p].task
    /\ ERet(p, "ok", <<>>)
    /\ UNCHANGED <<schedVars, acctVars, now, msgs, chats, delete_device_after,
                   delete_server_after,
                   wake, events>>

\* lines 378-387: the sleep of a wake task is over, it emits the event and
\* finishes
WakeFire(t) ==
    /\ wake[t].alive
    /\ now >= wake[t].until
    /\ wake' = [wake EXCEPT ![t] = NoTask]
    /\ events' = Emit(MsgsChanged("task"))
    /\ UNCHANGED <<schedVars, acctVars, now, msgs, chats, delete_device_after,
                   delete_server_after,
                   ephemeral_task, ecall>>

\* a second passes
Tick ==
    /\ now < MaxClock
    /\ now' = now + 1
    /\ UNCHANGED <<schedVars, acctVars, msgs, chats, delete_device_after,
                   delete_server_after,
                   ephemeral_task, wake, events, ecall>>

ScheduleSteps(p) ==
    \/ \E ok \in BOOLEAN : ScheduleQuery(p, ok)
    \/ ScheduleCancel(p)
    \/ \E late \in BOOLEAN : ScheduleSpawn(p, late)
    \/ ScheduleStore(p)

(***************************************************************************)
(* schedule_ephemeral_task called by two tasks, on a Context with messages *)
(* whose timers run                                                        *)
(***************************************************************************)
WakeTaskInit ==
    /\ SchedulerNew
    /\ InboxWatch = TRUE
    /\ AccountsNew
    /\ now = 1
    /\ \E ts \in 2..3 :
           msgs = [m \in MsgIds |->
                      IF m = 1 THEN Msg(10, 1, 2, ts, "InSeen", "text")
                      ELSE Msg(10, 1, 0, 0, "InFresh", "text")]
    /\ chats = [c \in ChatIds |-> 0]
    /\ delete_device_after = 0
    /\ delete_server_after = Unset
    /\ ephemeral_task = 0
    /\ wake = [t \in TaskIds |-> NoTask]
    /\ events = NoEvents
    /\ ecall = [p \in EphCallers |-> NoECall]

WakeTaskNext ==
    \/ \E p \in EphCallers : ScheduleEphemeralTask(p) \/ ScheduleSteps(p)
    \/ \E t \in TaskIds : WakeFire(t)
    \/ Tick

WakeTaskSpec == WakeTaskInit /\ [][WakeTaskNext]_vars

\* no task is inside a call of the engine
EQuiescent == \A p \in EphCallers : ecall[p].pc = "idle"

\* C22: whenever no call of schedule_ephemeral_task is in progress, at most
\* one wake task is alive, and an alive wake task is the one held in the
\* field ephemeral_task
C22_AtMostOneWakeTask ==
    EQuiescent =>
        /\ Cardinality(Alive) <= 1
        /\ \A t \in Alive : ephemeral_task = t

(***************************************************************************)
(* delete_expired_messages                                                 *)
(***************************************************************************)
\* SET txt = 'DELETED', chat_id = DC_CHAT_ID_TRASH
Trash(row) == [row EXCEPT !.txt = "DELETED", !.chat_id = DC_CHAT_ID_TRASH]

\* WHERE of the first UPDATE, lines 283-285
Expired(row, time) ==
    /\ row.ephemeral_timestamp # 0
    /\ row.ephemeral_timestamp < time
    /\ row.chat_id # DC_CHAT_ID_TRASH

\* WHERE of the second UPDATE, lines 312-315
TooOld(row, threshold_timestamp) ==
    /\ row.timestamp < threshold_timestamp
    /\ row.chat_id > DC_CHAT_ID_LAST_SPECIAL
    /\ row.chat_id # SelfChat
    /\ row.chat_id # DeviceChat

\* mutant of Updated: the flag tells that no row was modified
UpdatedInverted(rows_modified) == rows_modified = 0

\* execute(..) > 0, rows_modified > 0
Updated(rows_modified) == rows_modified > 0

\* a task calls delete_expired_messages; the result and the clock values of
\* its previous call of it are kept
DeleteExpiredMessages(p) ==
    /\ EAt(p, "idle")
    /\ ECall(p, "delete_expired", 0, "sweep_ephemeral",
             [prev |-> IF ecall[p].op = "delete_expired"
                       THEN <<ecall[p].res, ecall[p].t1, ecall[p].t2>>
                       ELSE <<>>])
    /\ UNCHANGED <<schedVars, acctVars, ephData>>

\* lines 277-289: the first UPDATE, with time() read for its parameter; a
\* failed statement is returned
SweepEphemeral(p, ok) ==
    /\ EAt(p, "sweep_ephemeral")
    /\ IF ok
       THEN LET rows == {m \in MsgIds : Expired(msgs[m], now)}
            IN /\ msgs' = [m \in MsgIds |->
                              IF m \in rows THEN Trash(msgs[m]) ELSE msgs[m]]
               /\ EGoto(p, "sweep_device",
                        [updated |-> Updated(Cardinality(rows)), t1 |-> now])
       ELSE /\ ERet(p, "err", <<>>)
            /\ UNCHANGED msgs
    /\ UNCHANGED <<schedVars, acctVars, now, chats, delete_device_after,
                   delete_server_after,
                   ephemeral_task, wake, events>>

\* lines 291-329: with delete_device_after set, the second UPDATE with the
\* threshold time() - delete_device_after; then schedule_ephemeral_task
SweepDevice(p, ok) ==
    /\ EAt(p, "sweep_device")
    /\ IF delete_device_after = 0
       THEN /\ EGoto(p, "sched", [k |-> <<"swept">>, t2 |-> now])
            /\ UNCHANGED msgs
       ELSE IF ok
       THEN LET rows == {m \in MsgIds : TooOld(msgs[m], now - delete_device_after)}
            IN /\ msgs' = [m \in MsgIds |->
                              IF m \in rows THEN Trash(msgs[m]) ELSE msgs[m]]
               /\ EGoto(p, "sched",
                        [k |-> <<"swept">>, t2 |-> now,
                         updated |-> ecall[p].updated \/ Updated(Cardinality(rows))])
       ELSE /\ ERet(p, "err", <<>>)
            /\ UNCHANGED msgs
    /\ UNCHANGED <<schedVars, acctVars, now, chats, delete_device_after,
                   delete_server_after,
                   ephemeral_task, wake, events>>

\* line 330: Ok(updated)
Swept(p) ==
    /\ EAt(p, "swept")
    /\ ERet(p, IF ecall[p].updated THEN "true" ELSE "false", <<>>)
    /\ UNCHANGED <<schedVars, acctVars, ephData>>

SweepSteps(p) ==
    \/ \E ok \in BOOLEAN : SweepEphemeral(p, ok)
    \/ \E ok \in BOOLEAN : SweepDevice(p, ok)
    \/ Swept(p)

(***************************************************************************)
(* One task sweeps a Context whose messages are in any chat, armed or not, *)
(* while the clock runs and the wake tasks fire                            *)
(***************************************************************************)
SweepInit ==
    /\ SchedulerNew
    /\ InboxWatch = TRUE
    /\ AccountsNew
    /\ now = 2
    /\ \E c \in ChatIds, t \in {1, 3}, e1 \in {0, 2, 4}, e2 \in {0, 3} :
           msgs = [m \in MsgIds |->
                      IF m = 1 THEN Msg(c, t, IF e1 = 0 THEN 0 ELSE 2, e1, "InSeen", "text")
                      ELSE Msg(10, 1, IF e2 = 0 THEN 0 ELSE 2, e2, "InSeen", "text")]
    /\ chats = [c \in ChatIds |-> 0]
    /\ delete_device_after \in {0, 2}
    /\ delete_server_after = Unset
    /\ ephemeral_task = 0
    /\ wake = [t \in TaskIds |-> NoTask]
    /\ events = NoEvents
    /\ ecall = [p \in EphCallers |-> NoECall]

SweepNext ==
    \/ DeleteExpiredMessages(1)
    \/ SweepSteps(1)
    \/ ScheduleSteps(1)
    \/ \E t \in TaskIds : WakeFire(t)
    \/ Tick

SweepSpec == SweepInit /\ [][SweepNext]_vars

\* C23: when delete_expired_messages has returned, it has emitted no
\* MsgsChanged event itself
C23_SweepEmitsNothing ==
    \A p \in EphCallers :
        (ecall[p].pc = "idle" /\ ecall[p].op = "delete_expired") =>
            ecall[p].emitted = <<>>

\* a call of delete_expired_messages by task p has returned Ok
SweepReturned(p) ==
    /\ ecall[p].pc = "idle"
    /\ ecall[p].op = "delete_expired"
    /\ ecall[p].res \in {"true", "false"}

\* the rows a sweep has to move, of the rows at its start: rule (1) with
\* the clock value the first statement read, rule (2) with the clock value
\* the second statement read
MustMove(p) ==
    {m \in MsgIds :
        LET row == ecall[p].before[m]
        IN \/ /\ row.ephemeral_timestamp # 0
              /\ row.ephemeral_timestamp < ecall[p].t1
              /\ row.chat_id # DC_CHAT_ID_TRASH
           \/ /\ delete_device_after # 0
              /\ row.timestamp < ecall[p].t2 - delete_device_after
              /\ ~ is_special(row.chat_id)
              /\ row.chat_id \notin {SelfChat, DeviceChat}}

C25_WitnessNone ==
    /\ SweepReturned(1)
    /\ ecall[1].res = "false"
    /\ delete_device_after # 0
    /\ \E m \in MsgIds : ecall[1].before[m].ephemeral_timestamp # 0

\* task p has made two calls of delete_expired_messages in a row, the first
\* returned false, and both read the same clock value in each statement
SecondSweepAfterFalse(p) ==
    /\ SweepReturned(p)
    /\ ecall[p].prev = <<"false", ecall[p].t1, ecall[p].t2>>
    /\ ecall[p].t1 = ecall[p].t2

WakeEmits(t) ==
    /\ wake[t].alive
    /\ ~ wake'[t].alive
    /\ events' # events
    /\ events'.log = <<MsgsChanged("task")>>

\* the step is the emission of MsgsChanged by the call of task p itself
CallEmits(p) ==
    /\ ecall[p].pc = "sched_spawn"
    /\ events' # events
    /\ events'.log = <<MsgsChanged("call")>>

\* C27: a wake task spawned for earliest timestamp T emits MsgsChanged no
\* earlier than time T + 1, so every message with that timestamp satisfies
\* ephemeral_timestamp < now at the event; a call of schedule_ephemeral_task
\* that finds T + 1 in the past emits the event itself, at once, spawns no
\* task and leaves no wake task in the field
C27_WakeTiming ==
    [][/\ \A t \in TaskIds :
              WakeEmits(t) =>
                  /\ now >= wake[t].T + 1
                  /\ \A m \in MsgIds :
                         msgs[m].ephemeral_timestamp = wake[t].T =>
                             msgs[m].ephemeral_timestamp < now
       /\ \A p \in EphCallers :
              /\ CallEmits(p) =>
                     /\ ecall[p].ts + 1 <= now
                     /\ wake' = wake
                     /\ ephemeral_task' = 0
              /\ (/\ ecall[p].pc = "sched_spawn"
                  /\ ecall'[p].pc # "sched_spawn"
                  /\ ecall[p].ts # 0
                  /\ ecall[p].ts + 1 < now) => CallEmits(p)]_vars

\* a wake task has emitted its event while a message with a running timer
\* is not yet in the trash chat
C27_Witness ==
    /\ events.log = <<MsgsChanged("task")>>
    /\ \E m \in MsgIds :
           /\ msgs[m].ephemeral_timestamp # 0
           /\ msgs[m].ephemeral_timestamp < now
           /\ msgs[m].chat_id # DC_CHAT_ID_TRASH

\* a call has found the earliest timestamp more than a second in the past
\* and emitted the event itself
C27_WitnessImmediate ==
    /\ events.log = <<MsgsChanged("call")>>
    /\ \E p \in EphCallers : ecall[p].emitted # <<>>
    /\ ephemeral_task = 0

(***************************************************************************)
(* MsgId::ephemeral_timer, MsgId::start_ephemeral_timer,                   *)
(* start_ephemeral_timers                                                  *)
(***************************************************************************)
\* mutant of NotStartedOrLater: every call sets the timestamp
AnyTimestamp(stored, ephemeral_timestamp) == TRUE

\* WHERE (ephemeral_timestamp == 0 OR ephemeral_timestamp > ?)
NotStartedOrLater(stored, ephemeral_timestamp) ==
    stored = 0 \/ stored > ephemeral_timestamp

\* a task calls start_ephemeral_timer of message m
StartEphemeralTimer(p, m) ==
    /\ EAt(p, "idle")
    /\ ECall(p, "start_ephemeral_timer", m, "ephemeral_timer", <<>>)
    /\ UNCHANGED <<schedVars, acctVars, ephData>>

\* lines 233-251: the timer of the message is read, a failed query is
\* returned; with a disabled timer the call is over, with an enabled one
\* ephemeral_timestamp = time() + duration
EphemeralTimer(p, ok) ==
    /\ EAt(p, "ephemeral_timer")
    /\ IF ~ ok THEN ERet(p, "err", <<>>)
       ELSE LET timer == from_u32(msgs[ecall[p].arg].ephemeral_timer)
            IN IF timer.enabled
               THEN EGoto(p, "arm_update",
                          [timer |-> timer, t1 |-> now, u |-> now + timer.duration])
               ELSE ERet(p, "ok", [timer |-> timer])
    /\ UNCHANGED <<schedVars, acctVars, ephData>>

\* lines 253-262: the UPDATE, a failed one is returned; then
\* schedule_ephemeral_task
ArmUpdate(p, ok) ==
    /\ EAt(p, "arm_update")
    /\ IF ok
       THEN LET m == ecall[p].arg
            IN /\ msgs' = [msgs EXCEPT ![m].ephemeral_timestamp =
                              IF NotStartedOrLater(@, ecall[p].u) THEN ecall[p].u ELSE @]
               /\ EGoto(p, "sched", [k |-> <<"arm_done">>])
       ELSE /\ ERet(p, "err", <<>>)
            /\ UNCHANGED msgs
    /\ UNCHANGED <<schedVars, acctVars, now, chats, delete_device_after,
                   delete_server_after,
                   ephemeral_task, wake, events>>

\* line 264: Ok(())
ArmDone(p) ==
    /\ EAt(p, "arm_done")
    /\ ERet(p, "ok", <<>>)
    /\ UNCHANGED <<schedVars, acctVars, ephData>>

\* mutant of NeedsTimer: the state of the message is not looked at
NeedsTimerAnyState(row) ==
    /\ row.ephemeral_timer > 0
    /\ row.ephemeral_timestamp = 0

\* WHERE of start_ephemeral_timers, lines 445-447
NeedsTimer(row) ==
    /\ row.ephemeral_timer > 0
    /\ row.ephemeral_timestamp = 0
    /\ row.state \notin Unseen

\* a task calls start_ephemeral_timers
StartEphemeralTimers(p) ==
    /\ EAt(p, "idle")
    /\ ECall(p, "start_ephemeral_timers", 0, "heal", <<>>)
    /\ UNCHANGED <<schedVars, acctVars, ephData>>

\* lines 440-457: the UPDATE with time() for its parameter
HealUpdate(p, ok) ==
    /\ EAt(p, "heal")
    /\ IF ok
       THEN /\ msgs' = [m \in MsgIds |->
                           IF NeedsTimer(msgs[m])
                           THEN [msgs[m] EXCEPT !.ephemeral_timestamp =
                                                    now + msgs[m].ephemeral_timer]
                           ELSE msgs[m]]
            /\ ERet(p, "ok", [t1 |-> now])
       ELSE /\ ERet(p, "err", <<>>)
            /\ UNCHANGED msgs
    /\ UNCHANGED <<schedVars, acctVars, now, chats, delete_device_after,
                   delete_server_after,
                   ephemeral_task, wake, events>>

ArmSteps(p) ==
    \/ \E ok \in BOOLEAN : EphemeralTimer(p, ok)
    \/ \E ok \in BOOLEAN : ArmUpdate(p, ok)
    \/ ArmDone(p)
    \/ \E ok \in BOOLEAN : HealUpdate(p, ok)

(***************************************************************************)
(* One task arms the messages of a Context, seen or not, with a timer or   *)
(* not, armed or not, while the clock runs and the wake tasks fire         *)
(***************************************************************************)
ArmInit ==
    /\ SchedulerNew
    /\ InboxWatch = TRUE
    /\ AccountsNew
    /\ now = 1
    /\ msgs \in [MsgIds -> {Msg(10, 1, d, e, s, "text") :
                                d \in {0, 1, 2}, e \in {0, 4},
                                s \in {"InFresh", "InSeen"}}]
    /\ chats = [c \in ChatIds |-> 0]
    /\ delete_device_after = 0
    /\ delete_server_after = Unset
    /\ ephemeral_task = 0
    /\ wake = [t \in TaskIds |-> NoTask]
    /\ events = NoEvents
    /\ ecall = [p \in EphCallers |-> NoECall]

ArmNext ==
    \/ \E m \in MsgIds : StartEphemeralTimer(1, m)
    \/ StartEphemeralTimers(1)
    \/ ArmSteps(1)
    \/ ScheduleSteps(1)
    \/ \E t \in TaskIds : WakeFire(t)
    \/ Tick

ArmSpec == ArmInit /\ [][ArmNext]_vars

\* the step is the UPDATE of start_ephemeral_timer called by task p
Arms(p) ==
    /\ ecall[p].pc = "arm_update"
    /\ ecall'[p].pc = "sched"

\* C24: the UPDATE of start_ephemeral_timer, called at clock value now for a
\* message with an enabled timer, sets ephemeral_timestamp to now + duration
\* when the stored timestamp is 0 or greater than that, and leaves it
\* otherwise; no step of start_ephemeral_timer or start_ephemeral_timers
\* increases a non-zero ephemeral_timestamp or sets it back to 0
C24_ArmingNeverPushesOut ==
    [][/\ \A p \in EphCallers :
              Arms(p) =>
                  LET m == ecall[p].arg
                      stored == msgs[m].ephemeral_timestamp
                      expiry == ecall[p].t1 + msgs[m].ephemeral_timer
                  IN /\ msgs[m].ephemeral_timer > 0
                     /\ msgs'[m].ephemeral_timestamp =
                            IF stored = 0 \/ stored > expiry THEN expiry ELSE stored
       /\ \A m \in MsgIds :
              msgs[m].ephemeral_timestamp # 0 =>
                  /\ msgs'[m].ephemeral_timestamp # 0
                  /\ msgs'[m].ephemeral_timestamp <= msgs[m].ephemeral_timestamp]_vars

\* start_ephemeral_timer has returned for a message that was armed with a
\* later timestamp at its start and for one armed with an earlier one
C24_Witness ==
    /\ ecall[1].pc = "idle"
    /\ ecall[1].op = "start_ephemeral_timer"
    /\ ecall[1].res = "ok"
    /\ ecall[1].timer.enabled
    /\ LET m == ecall[1].arg
       IN /\ ecall[1].before[m].ephemeral_timestamp # 0
          /\ msgs[m].ephemeral_timestamp < ecall[1].before[m].ephemeral_timestamp
    /\ now > 3

\* C30: when start_ephemeral_timers has returned Ok, every message with
\* ephemeral_timer > 0 and a state other than InFresh, InNoticed, OutDraft
\* has ephemeral_timestamp > 0; a message that was armed has its timestamp
\* of before, and a message in one of these states or with ephemeral_timer 0
\* is as before
C30_BackgroundHealer ==
    (/\ ecall[1].pc = "idle"
     /\ ecall[1].op = "start_ephemeral_timers"
     /\ ecall[1].res = "ok") =>
        \A m \in MsgIds :
            LET old == ecall[1].before[m]
            IN /\ (/\ msgs[m].ephemeral_timer > 0
                   /\ msgs[m].state \notin {"InFresh", "InNoticed", "OutDraft"}) =>
                       msgs[m].ephemeral_timestamp > 0
               /\ old.ephemeral_timestamp # 0 =>
                      msgs[m].ephemeral_timestamp = old.ephemeral_timestamp
               /\ (\/ old.state \in {"InFresh", "InNoticed", "OutDraft"}
                   \/ old.ephemeral_timer = 0) => msgs[m] = old

\* start_ephemeral_timers has armed a seen message and left a fresh one
\* with a timer unarmed
C30_Witness ==
    /\ ecall[1].pc = "idle"
    /\ ecall[1].op = "start_ephemeral_timers"
    /\ ecall[1].res = "ok"
    /\ \E m \in MsgIds : /\ ecall[1].before[m].ephemeral_timestamp = 0
                         /\ msgs[m].ephemeral_timestamp > 0
    /\ \E m \in MsgIds : /\ msgs[m].ephemeral_timer > 0
                         /\ msgs[m].state = "InFresh"
                         /\ msgs[m].ephemeral_timestamp = 0

(***************************************************************************)
(* ChatId::get_ephemeral_timer, ChatId::inner_set_ephemeral_timer,         *)
(* ChatId::set_ephemeral_timer                                             *)
(***************************************************************************)
\* EventType::ChatEphemeralTimerModified { chat_id, timer }
ChatEphemeralTimerModified(chat_id, timer) ==
    Event("ChatEphemeralTimerModified", chat_id, timer, "call")

\* mutant of TimerUnchanged: the current value is not compared
TimerNeverUnchanged(timer, current) == FALSE

\* timer == self.get_ephemeral_timer(context).await?
TimerUnchanged(timer, current) == timer = current

\* a task calls set_ephemeral_timer of a chat; `back` keeps the chats rows
\* at the start of the call
SetEphemeralTimer(p, chat_id, timer) ==
    /\ EAt(p, "idle")
    /\ ECall(p, "set_ephemeral_timer", chat_id, "get_ephemeral_timer",
             [timer |-> timer, back |-> chats])
    /\ UNCHANGED <<schedVars, acctVars, ephData>>

\* lines 148-157 and 191-193: the column is read as a Timer, a failed query
\* is returned; an equal timer ends the call with Ok
GetEphemeralTimer(p, ok) ==
    /\ EAt(p, "get_ephemeral_timer")
    /\ IF ~ ok THEN ERet(p, "sql", <<>>)
       ELSE IF TimerUnchanged(ecall[p].timer, from_u32(chats[ecall[p].arg]))
       THEN ERet(p, "ok", <<>>)
       ELSE EGoto(p, "inner_set_ephemeral_timer", <<>>)
    /\ UNCHANGED <<schedVars, acctVars, ephData>>

\* lines 168-178: a special chat id is rejected, else the UPDATE of the
\* column with the timer as u32; a failed statement is returned
InnerSetEphemeralTimer(p, ok) ==
    /\ EAt(p, "inner_set_ephemeral_timer")
    /\ IF is_special(ecall[p].arg)
       THEN /\ ERet(p, "Invalid chat ID", <<>>)
            /\ UNCHANGED chats
       ELSE IF ~ ok
       THEN /\ ERet(p, "sql", <<>>)
            /\ UNCHANGED chats
       ELSE /\ chats' = [chats EXCEPT ![ecall[p].arg] = to_u32(ecall[p].timer)]
            /\ EGoto(p, "emit_event", <<>>)
    /\ UNCHANGED <<schedVars, acctVars, now, msgs, delete_device_after,
                   delete_server_after,
                   ephemeral_task, wake, events>>

\* lines 180-184: the event is emitted
InnerEmitEvent(p) ==
    /\ EAt(p, "emit_event")
    /\ LET ev == ChatEphemeralTimerModified(ecall[p].arg, ecall[p].timer)
       IN /\ events' = Emit(ev)
          /\ EGoto(p, "send_msg", [emitted |-> Append(ecall[p].emitted, ev)])
    /\ UNCHANGED <<schedVars, acctVars, now, msgs, chats, delete_device_after,
                   delete_server_after,
                   ephemeral_task, wake>>

\* lines 195-204: the system message is sent; a failure is logged and the
\* call returns Ok
SendMsg(p, ok) ==
    /\ EAt(p, "send_msg")
    /\ ERet(p, "ok", [sent |-> IF ok THEN "sent" ELSE "failed"])
    /\ UNCHANGED <<schedVars, acctVars, ephData>>

(***************************************************************************)
(* One task sets the timers of the chats of a Context, special or not      *)
(***************************************************************************)
ChatTimers == {Disabled, Enabled(0), Enabled(2), Enabled(MaxDuration)}

ChatInit ==
    /\ SchedulerNew
    /\ InboxWatch = TRUE
    /\ AccountsNew
    /\ now = 1
    /\ msgs = [m \in MsgIds |-> Msg(10, 1, 0, 0, "InFresh", "text")]
    /\ chats \in [ChatIds -> {0, 2}]
    /\ delete_device_after = 0
    /\ delete_server_after = Unset
    /\ ephemeral_task = 0
    /\ wake = [t \in TaskIds |-> NoTask]
    /\ events = NoEvents
    /\ ecall = [p \in EphCallers |-> NoECall]

ChatNext ==
    \/ \E c \in ChatIds, timer \in ChatTimers : SetEphemeralTimer(1, c, timer)
    \/ \E ok \in BOOLEAN : GetEphemeralTimer(1, ok)
    \/ \E ok \in BOOLEAN : InnerSetEphemeralTimer(1, ok)
    \/ InnerEmitEvent(1)
    \/ \E ok \in BOOLEAN : SendMsg(1, ok)

ChatSpec == ChatInit /\ [][ChatNext]_vars

\* a call of set_ephemeral_timer by task p has returned, with no failure of
\* a database statement
SetReturned(p) ==
    /\ ecall[p].pc = "idle"
    /\ ecall[p].op = "set_ephemeral_timer"
    /\ ecall[p].res # "sql"

\* what set_ephemeral_timer(chat, t) has to have done when it has returned:
\* with t the current timer of the chat nothing, else the column updated,
\* one event ChatEphemeralTimerModified{chat, t} emitted, Ok returned,
\* whether the send succeeded or not
SetDone(p) ==
    LET chat_id == ecall[p].arg
        t == ecall[p].timer
        current == IF ecall[p].back[chat_id] = 0 THEN Disabled
                   ELSE Enabled(ecall[p].back[chat_id])
    IN IF t = current
       THEN /\ ecall[p].res = "ok"
            /\ chats = ecall[p].back
            /\ ecall[p].emitted = <<>>
            /\ ecall[p].sent = "no"
       ELSE /\ ecall[p].res = "ok"
            /\ chats = [ecall[p].back EXCEPT
                           ![chat_id] = IF t.enabled THEN t.duration ELSE 0]
            /\ ecall[p].emitted =
                   <<[type |-> "ChatEphemeralTimerModified", chat_id |-> chat_id,
                      arg |-> t, by |-> "call"]>>
            /\ ecall[p].sent \in {"sent", "failed"}

\* the step emits the event of the call of task p
EmitsModified(p) ==
    /\ ecall[p].op = "set_ephemeral_timer"
    /\ events' # events

ServerDeletableAnyUid(row, threshold_timestamp, time) ==
    \/ row.timestamp < threshold_timestamp
    \/ (row.ephemeral_timestamp # 0 /\ row.ephemeral_timestamp < time)

\* WHERE of the query, lines 419-423
ServerDeletable(row, threshold_timestamp, time) ==
    /\ \/ row.timestamp < threshold_timestamp
       \/ (row.ephemeral_timestamp # 0 /\ row.ephemeral_timestamp < time)
    /\ row.server_uid # 0

\* a task calls load_imap_deletion_msgid
LoadImapDeletionMsgid(p) ==
    /\ EAt(p, "idle")
    /\ ECall(p, "load_imap_deletion_msgid", 0, "threshold", <<>>)
    /\ UNCHANGED <<schedVars, acctVars, ephData>>

\* lines 407-412: now = time(), and the threshold from the setting
LoadThreshold(p) ==
    /\ EAt(p, "threshold")
    /\ EGoto(p, "query_row",
             [t1 |-> now,
              u |-> IF delete_server_after = Unset THEN 0
                    ELSE now - delete_server_after])
    /\ UNCHANGED <<schedVars, acctVars, ephData>>

\* lines 414-427: the query returns the id of any one row that matches, None
\* when there is none, or its failure; `s` is the Option
LoadQueryRow(p, ok) ==
    /\ EAt(p, "query_row")
    /\ LET rows == {m \in MsgIds : ServerDeletable(msgs[m], ecall[p].u, ecall[p].t1)}
       IN IF ~ ok THEN ERet(p, "err", <<>>)
          ELSE IF rows = {} THEN ERet(p, "ok", [s |-> <<>>])
          ELSE \E m \in rows : ERet(p, "ok", [s |-> <<m>>])
    /\ UNCHANGED <<schedVars, acctVars, ephData>>

(***************************************************************************)
(* One task asks for a message to delete on the server, with messages on   *)
(* the server or not, old or new, armed or not, while the clock runs       *)
(***************************************************************************)
OnServer(row, server_uid) == [row EXCEPT !.server_uid = server_uid]

LoadInit ==
    /\ SchedulerNew
    /\ InboxWatch = TRUE
    /\ AccountsNew
    /\ now = 2
    /\ \E c \in {DC_CHAT_ID_TRASH, 10}, t \in {0, 1, 3}, e1 \in {0, 2, 4},
          e2 \in {0, 3}, u1 \in {0, 5}, u2 \in {0, 6} :
           msgs = [m \in MsgIds |->
                      IF m = 1 THEN OnServer(Msg(c, t, 2, e1, "InSeen", "text"), u1)
                      ELSE OnServer(Msg(10, 1, 2, e2, "InSeen", "text"), u2)]
    /\ chats = [c \in ChatIds |-> 0]
    /\ delete_device_after = 0
    /\ delete_server_after \in {Unset, 0, 2}
    /\ ephemeral_task = 0
    /\ wake = [t \in TaskIds |-> NoTask]
    /\ events = NoEvents
    /\ ecall = [p \in EphCallers |-> NoECall]

LoadNext ==
    \/ LoadImapDeletionMsgid(1)
    \/ LoadThreshold(1)
    \/ \E ok \in BOOLEAN : LoadQueryRow(1, ok)
    \/ Tick

LoadSpec == LoadInit /\ [][LoadNext]_vars

\* a call of load_imap_deletion_msgid by task p has returned Ok
LoadReturned(p) ==
    /\ ecall[p].pc = "idle"
    /\ ecall[p].op = "load_imap_deletion_msgid"
    /\ ecall[p].res = "ok"

\* the rows load_imap_deletion_msgid may return, with now the clock value
\* the call read
MayDeleteOnServer(p) ==
    LET time == ecall[p].t1
        threshold == IF delete_server_after = -1 THEN 0
                     ELSE time - delete_server_after
    IN {m \in MsgIds :
           /\ msgs[m].server_uid # 0
           /\ \/ msgs[m].timestamp < threshold
              \/ /\ msgs[m].ephemeral_timestamp # 0
                 /\ msgs[m].ephemeral_timestamp < time}

\* C31: load_imap_deletion_msgid returns only the id of a message with
\* server_uid # 0 and timestamp < threshold or an ephemeral_timestamp that
\* is not 0 and < now, and None exactly when there is no such message; with
\* delete_server_after unset and no negative timestamp the message returned
\* has an expired timer
C31_ServerDeletion ==
    LoadReturned(1) =>
        /\ \A m \in MsgIds : ecall[1].s = <<m>> => m \in MayDeleteOnServer(1)
        /\ (ecall[1].s = <<>>) <=> (MayDeleteOnServer(1) = {})
        /\ (/\ delete_server_after = -1
            /\ \A m \in MsgIds : msgs[m].timestamp >= 0) =>
               \A m \in MsgIds :
                   ecall[1].s = <<m>> =>
                       /\ msgs[m].ephemeral_timestamp # 0
                       /\ msgs[m].ephemeral_timestamp < ecall[1].t1

\* with delete_server_after set a message was returned for its age while
\* another message, not on the server, is as old
C31_Witness ==
    /\ LoadReturned(1)
    /\ delete_server_after > 0
    /\ \E m \in MsgIds : /\ ecall[1].s = <<m>>
                         /\ msgs[m].ephemeral_timestamp = 0
    /\ \E m \in MsgIds : /\ msgs[m].server_uid = 0
                         /\ msgs[m].timestamp < ecall[1].t1 - delete_server_after

(***************************************************************************)
(* Accounts::get_event_emitter and EventEmitter::recv.  The event channel  *)
(* of an account (crate::events) and the merging of the streams are not    *)
(* part of the sources; they follow the specification: every account has   *)
(* an emitter that yields its events in the order emitted, and the merged  *)
(* stream serves its sources in fair round-robin.                          *)
(***************************************************************************)
\* the elements of a sequence
Range(seq) == {seq[i] : i \in DOMAIN seq}

\* an account emits an event; its first MaxEvents events are numbered, the
\* later ones are not told apart
AccountEmit(id) ==
    /\ id \in accounts
    /\ id \notin emitter.closed
    /\ Len(emitter.queue[id]) < MaxPending
    /\ LET n == emitter.count[id]
           ev == IF n < MaxEvents THEN <<id, n + 1>> ELSE <<id, 0>>
       IN emitter' = [emitter EXCEPT
              !.queue[id] = Append(@, ev),
              !.count[id] = IF n < MaxEvents THEN n + 1 ELSE n]
    /\ UNCHANGED <<schedVars, ephVars, inner, file, accounts, readers, caller>>

\* the last sender of the event channel of an account is dropped: the
\* stream of the account ends after the events it still holds
SenderDropped(id) ==
    /\ id \in accounts
    /\ id \notin emitter.closed
    /\ emitter' = [emitter EXCEPT !.closed = @ \cup {id}]
    /\ UNCHANGED <<schedVars, ephVars, inner, file, accounts, readers, caller>>

\* mutant of Emitters: the first account of the map is left out
EmittersButFirst(map) == IF map = {} THEN <<>> ELSE Tail(keys(map))

\* lines 226-232: the emitters of the accounts in the map, in the order of
\* the map
Emitters(map) == keys(map)

\* Accounts::get_event_emitter: select_all of the emitters collected
GetEventEmitter ==
    /\ ~ emitter.made
    /\ emitter' = [emitter EXCEPT !.made = TRUE,
                                  !.merged = Range(Emitters(accounts)),
                                  !.order = Emitters(accounts)]
    /\ UNCHANGED <<schedVars, ephVars, inner, file, accounts, readers, caller>>

\* the sources of the merged stream that have not ended, in the order in
\* which they are served
LiveSources ==
    LET Live(id) == ~ (id \in emitter.closed /\ emitter.queue[id] = <<>>)
    IN SelectSeq(emitter.order, Live)

\* the sources that hold an event
ReadySources ==
    LET Ready(id) == emitter.queue[id] # <<>>
    IN SelectSeq(LiveSources, Ready)

\* EventEmitter::recv returns: the next event of the first source that
\* holds one, which then is served last; None when every source has ended.
\* With sources open and no event it does not return.
Recv ==
    /\ emitter.made
    /\ IF ReadySources # <<>>
       THEN LET src == Head(ReadySources)
                ev == Head(emitter.queue[src])
                Other(id) == id # src
            IN emitter' = [emitter EXCEPT
                   !.queue[src] = Tail(@),
                   !.order = Append(SelectSeq(LiveSources, Other), src),
                   !.delivered = IF ev[2] # 0 THEN Append(@, ev) ELSE @,
                   !.res = "event"]
       ELSE /\ LiveSources = <<>>
            /\ emitter.res # "None"
            /\ emitter' = [emitter EXCEPT !.order = <<>>, !.res = "None"]
    /\ UNCHANGED <<schedVars, ephVars, inner, file, accounts, readers, caller>>

(***************************************************************************)
(* A manager with two accounts that emit events, one consumer of the       *)
(* merged stream that keeps calling recv                                   *)
(***************************************************************************)
EmitInit ==
    /\ SchedulerNew
    /\ InboxWatch = TRUE
    /\ inner = InnerConfig(1, 3, <<1, 2>>)
    /\ file = InnerConfig(1, 3, <<1, 2>>)
    /\ accounts = {1, 2}
    /\ readers = {}
    /\ caller = [c \in Clones |-> NoCall]
    /\ emitter = NoEmitter
    /\ ContextNew

EmitNext ==
    \/ \E id \in 1..MaxAccountId : AccountEmit(id)
    \/ \E id \in 1..MaxAccountId : SenderDropped(id)
    \/ GetEventEmitter
    \/ Recv

EmitSpec == EmitInit /\ [][EmitNext]_vars /\ WF_vars(Recv)

\* the numbered events the accounts of the manager have emitted
Emitted == {<<id, k>> : id \in accounts, k \in 1..MaxEvents} \cap
           {ev \in (1..MaxAccountId) \X (1..MaxEvents) : ev[2] <= emitter.count[ev[1]]}

\* C32: the merged emitter delivers every event of every account of the
\* manager exactly once (an event emitted is delivered or waits in a source
\* the merged stream serves, and no event is delivered twice), an event that
\* waits is eventually returned by recv, also while the other account keeps
\* emitting, and recv returns None only with every source closed
C32_MergedEventStream ==
    /\ [](emitter.made =>
            /\ \A ev \in Emitted :
                   \/ ev \in Range(emitter.delivered)
                   \/ /\ ev \in Range(emitter.queue[ev[1]])
                      /\ ev[1] \in Range(emitter.order)
            /\ \A i, j \in DOMAIN emitter.delivered :
                   emitter.delivered[i] = emitter.delivered[j] => i = j
            /\ Range(emitter.delivered) \subseteq Emitted
            /\ emitter.res = "None" => accounts \subseteq emitter.closed)
    /\ \A id \in 1..2 : \A k \in 1..MaxEvents :
           (emitter.made /\ emitter.count[id] >= k) ~>
               (<<id, k>> \in Range(emitter.delivered))

\* an event of account 2 was delivered between two events of account 1,
\* after which recv has returned None
C32_Witness ==
    /\ emitter.res = "None"
    /\ Len(emitter.delivered) >= 3
    /\ emitter.delivered[1][1] = 1
    /\ emitter.delivered[2][1] = 2
    /\ emitter.delivered[3][1] = 1

(***************************************************************************)
(* Lifecycle calls made in the wrong state of the scheduler                *)
(***************************************************************************)
\* mutant of PreStopStopped: pre_stop on a Stopped scheduler returns a token
PreStopStoppedReturns ==
    /\ call = "none"
    /\ sched = "Stopped"
    /\ call' = "token"
    /\ UNCHANGED <<sched, pc, started, stop_chan, shutdown, idle_interrupt,
                   info, jobs_loaded, InboxWatch, hist>>
    /\ UNCHANGED <<acctVars, ephVars, conn>>

\* pre_stop, lines 364-367: panic!("WARN: already stopped")
PreStopStopped ==
    /\ call = "none"
    /\ sched = "Stopped"
    /\ call' = "pre_stop panicked"
    /\ UNCHANGED <<sched, pc, started, stop_chan, shutdown, idle_interrupt,
                   info, jobs_loaded, InboxWatch, hist>>
    /\ UNCHANGED <<acctVars, ephVars, conn>>

\* stop, lines 389-392, called with a StopToken on a Stopped scheduler:
\* panic!("WARN: already stopped")
StopStopped ==
    /\ call = "none"
    /\ sched = "Stopped"
    /\ call' = "stop panicked"
    /\ UNCHANGED <<sched, pc, started, stop_chan, shutdown, idle_interrupt,
                   info, jobs_loaded, InboxWatch, hist>>
    /\ UNCHANGED <<acctVars, ephVars, conn>>

\* start, lines 249-310, called on a Running scheduler: as on a Stopped one,
\* new connection states and tasks are made and assigned to *self; the old
\* value is dropped, which closes the channels of the old tasks and detaches
\* their handles
StartRunning(mvboxWatch, sentboxWatch) ==
    /\ call = "none"
    /\ sched = "Running"
    /\ call' = "start"
    /\ pc' = [t \in Tasks |->
                IF t = "mvbox" /\ ~mvboxWatch THEN "none"
                ELSE IF t = "sentbox" /\ ~sentboxWatch THEN "none"
                ELSE "init"]
    /\ started' = [t \in Tasks |->
                     \/ t = "mvbox" /\ ~mvboxWatch
                     \/ t = "sentbox" /\ ~sentboxWatch]
    /\ stop_chan' = [t \in Tasks |-> FALSE]
    /\ shutdown' = [t \in Tasks |-> FALSE]
    /\ idle_interrupt' = [t \in Tasks |-> <<>>]
    /\ info' = [t \in JobTasks |-> Default]
    /\ jobs_loaded' = 0
    /\ first' = [t \in Tasks |-> <<>>]
    /\ net' = [t \in Tasks |-> "no"]
    /\ UNCHANGED <<sched, InboxWatch>>
    /\ UNCHANGED <<acctVars, ephVars, conn>>

MisuseNext ==
    \/ SchedNext
    \/ PreStopStopped
    \/ StopStopped
    \/ \E m, s \in BOOLEAN : StartRunning(m, s)

MisuseSpec == Init /\ [][MisuseNext]_vars

\* C33: a call of pre_stop or stop on a Stopped scheduler panics, and
\* changes neither the scheduler value nor a channel nor a task
C33_StoppedCallsPanic ==
    [][(sched = "Stopped" /\ call' # call /\ call' # "start") =>
           /\ call' \in {"pre_stop panicked", "stop panicked"}
           /\ UNCHANGED <<sched, pc, started, stop_chan, shutdown,
                          idle_interrupt, info, jobs_loaded>>]_vars

\* stop has panicked on a scheduler that was stopped after running
C33_Witness ==
    /\ call = "stop panicked"
    /\ sched = "Stopped"
    /\ \E t \in Tasks : pc[t] = "done"

\* C34: a call of start on a Running scheduler panics and replaces no
\* connection state and no task
C34_StartPanicsWhenRunning ==
    [][(sched = "Running" /\ call = "none" /\ call' \in {"start", "start panicked"}) =>
           /\ call' = "start panicked"
           /\ UNCHANGED <<sched, pc, started, stop_chan, shutdown,
                          idle_interrupt, info, jobs_loaded>>]_vars

(***************************************************************************)
(* stock_ephemeral_timer_changed                                           *)
(***************************************************************************)
\* mutant of stock_message: the arms of the hour and of the day are swapped
stock_message_swapped(timer) ==
    IF ~ timer.enabled THEN "MsgEphemeralTimerDisabled"
    ELSE IF timer.duration = 60 THEN "MsgEphemeralTimerMinute"
    ELSE IF timer.duration = 3600 THEN "MsgEphemeralTimerDay"
    ELSE IF timer.duration = 86400 THEN "MsgEphemeralTimerHour"
    ELSE IF timer.duration = 604800 THEN "MsgEphemeralTimerWeek"
    ELSE IF timer.duration = 2419200 THEN "MsgEphemeralTimerFourWeeks"
    ELSE "MsgEphemeralTimerEnabled"

\* lines 214-224: the match on the timer
stock_message(timer) ==
    IF ~ timer.enabled THEN "MsgEphemeralTimerDisabled"
    ELSE IF timer.duration = 60 THEN "MsgEphemeralTimerMinute"
    ELSE IF timer.duration = 3600 THEN "MsgEphemeralTimerHour"
    ELSE IF timer.duration = 86400 THEN "MsgEphemeralTimerDay"
    ELSE IF timer.duration = 604800 THEN "MsgEphemeralTimerWeek"
    ELSE IF timer.duration = 2419200 THEN "MsgEphemeralTimerFourWeeks"
    ELSE "MsgEphemeralTimerEnabled"

\* stock_system_msg(stock_message, param1, "", 0): the text of the stock
\* message with the parameter in the place of %1$s, as the tests give it
stock_system_msg(id, param1) ==
    <<"Message deletion timer is ">> \o
    CASE id = "MsgEphemeralTimerDisabled" -> <<"disabled.">>
      [] id = "MsgEphemeralTimerMinute" -> <<"set to 1 minute.">>
      [] id = "MsgEphemeralTimerHour" -> <<"set to 1 hour.">>
      [] id = "MsgEphemeralTimerDay" -> <<"set to 1 day.">>
      [] id = "MsgEphemeralTimerWeek" -> <<"set to 1 week.">>
      [] id = "MsgEphemeralTimerFourWeeks" -> <<"set to 4 weeks.">>
      [] OTHER -> <<"set to ">> \o param1 \o <<" s.">>

\* the durations with a message of their own, their neighbours, and the
\* small durations
StockTimers ==
    Timers \cup {Enabled(d) : d \in {59, 60, 61, 3600, 3601, 86399, 86400,
                                      604800, 2419200, 2419201}}

\* a task holds a Timer value of which it wants the stock message
StockInit ==
    /\ SchedulerNew
    /\ InboxWatch = TRUE
    /\ AccountsNew
    /\ now = 1
    /\ msgs = [m \in MsgIds |-> Msg(10, 1, 0, 0, "InFresh", "text")]
    /\ chats = [c \in ChatIds |-> 0]
    /\ delete_device_after = 0
    /\ delete_server_after = Unset
    /\ ephemeral_task = 0
    /\ wake = [t \in TaskIds |-> NoTask]
    /\ events = NoEvents
    /\ \E timer \in StockTimers :
           ecall = [p \in EphCallers |->
                       IF p = 1 THEN [NoECall EXCEPT !.pc = "stock", !.timer = timer]
                       ELSE NoECall]

\* stock_ephemeral_timer_changed(context, timer, 0): the stock message is
\* chosen
StockMessageChosen(p) ==
    /\ EAt(p, "stock")
    /\ EGoto(p, "stock_system_msg",
             [op |-> "stock_ephemeral_timer_changed",
              res |-> stock_message(ecall[p].timer)])
    /\ UNCHANGED <<schedVars, acctVars, ephData>>

\* lines 226-228: its text with timer.to_string() for the parameter
StockSystemMsg(p) ==
    /\ EAt(p, "stock_system_msg")
    /\ EGoto(p, "idle",
             [s |-> stock_system_msg(ecall[p].res, to_string(ecall[p].timer))])
    /\ UNCHANGED <<schedVars, acctVars, ephData>>

StockNext ==
    \/ StockMessageChosen(1)
    \/ StockSystemMsg(1)

StockSpec == StockInit /\ [][StockNext]_vars

\* the decimal digits of a number below ten million
Decimal(n) ==
    LET d(i) == Digits[((n \div i) % 10) + 1]
        all == <<d(1000000), d(100000), d(10000), d(1000), d(100), d(10), d(1)>>
        lead == CHOOSE i \in 1..7 : /\ (i = 7 \/ all[i] # "0")
                                    /\ \A j \in 1..(i - 1) : all[j] = "0"
    IN SubSeq(all, lead, 7)

\* C35: stock_ephemeral_timer_changed gives the 'disabled' message for
\* Disabled, the messages '1 minute', '1 hour', '1 day', '1 week', '4 weeks'
\* for the durations 60, 3600, 86400, 604800, 2419200, and for every other
\* enabled duration d the message 'set to d s.' with d in decimal
C35_StockMessageByTimer ==
    (ecall[1].pc = "idle" /\ ecall[1].op = "stock_ephemeral_timer_changed") =>
        LET timer == ecall[1].timer
            d == timer.duration
            tail == SubSeq(ecall[1].s, 2, Len(ecall[1].s))
        IN /\ ecall[1].s[1] = "Message deletion timer is "
           /\ ~ timer.enabled => tail = <<"disabled.">>
           /\ (timer.enabled /\ d = 60) => tail = <<"set to 1 minute.">>
           /\ (timer.enabled /\ d = 3600) => tail = <<"set to 1 hour.">>
           /\ (timer.enabled /\ d = 86400) => tail = <<"set to 1 day.">>
           /\ (timer.enabled /\ d = 604800) => tail = <<"set to 1 week.">>
           /\ (timer.enabled /\ d = 2419200) => tail = <<"set to 4 weeks.">>
           /\ (timer.enabled /\ d \notin {60, 3600, 86400, 604800, 2419200}) =>
                  tail = <<"set to ">> \o Decimal(d) \o <<" s.">>

\* the message of one hour and a second has been made
C35_Witness ==
    /\ ecall[1].pc = "idle"
    /\ ecall[1].op = "stock_ephemeral_timer_changed"
    /\ ecall[1].timer = Enabled(3601)
    /\ ecall[1].s = <<"Message deletion timer is ", "set to ", "3", "6", "0", "1", " s.">>

(***************************************************************************)
(* The state machine of the job loops (claim C36), checked under JobsSpec. *)
(***************************************************************************)
\* Loading: the loop is inside job::load_next, or inside the connect and
\* fetch that the inbox loop inserts in front of a postponed job
Loading(t) == pc[t] \in {"load", "fetch"}

\* Executing: the loop is inside perform_job
Executing(t) == pc[t] = "exec"

\* Idling, real or fake: fetch_idle with its initial fetch, Imap::idle,
\* Imap::fake_idle and the receive on the smtp idle-interrupt channel
Idling(t) == pc[t] \in IdleStates \union {"fetching"}

\* the step is a return of load_next with a job for the loop of task t
JobFound(t) ==
    IF t = "inbox"
    THEN \E f, c \in BOOLEAN : InboxLoadNext(TRUE, f, c)
    ELSE SmtpLoadNext(TRUE)

\* C36: the inbox and smtp loops move only from Loading to Executing and
\* back, and from Loading to Idling and back (the fetch in front of a
\* postponed job counted as Loading); a loop enters a form of idle only in
\* a step in which load_next returned no job, and it leaves a job only
\* towards load_next.
C36_TaskStateMachine ==
    [][\A t \in JobTasks :
          /\ (Loading(t) /\ Executing(t)') => JobFound(t)
          /\ (Executing(t) /\ ~Executing(t)') => Loading(t)'
          /\ (~Idling(t) /\ Idling(t)') => Loading(t) /\ ~JobFound(t)
          /\ (Idling(t) /\ ~Idling(t)') => Loading(t)'
          /\ ~(Idling(t) /\ Executing(t)')]_vars

(***************************************************************************)
(* fetch_idle (src/src/scheduler.rs) and Imap::idle, Imap::fake_idle       *)
(* (src/src/imap/idle.rs) on one connection whose idle-interrupt sender is *)
(* alive.  The outcome of every call into the network is an input of the   *)
(* step.  A call is followed until it returns; a fake idle is followed for *)
(* MaxTicks poll ticks.                                                    *)
(***************************************************************************)
\* poll ticks of one fake idle that the model follows
MaxTicks == 2

\* a call of fetch_idle or fake_idle starts on the connection
ConnCall(op, folderSet, state, log) ==
    /\ conn.pc \in {"ready", "returned"}
    /\ conn' = [conn EXCEPT !.pc = state, !.op = op, !.folder = folderSet,
                            !.can_idle = FALSE, !.idle = "none",
                            !.log = log, !.polls = <<>>, !.got = <<>>,
                            !.from = "none", !.ret = <<>>]

\* the call in progress returns `i` out of the wait it is in
ConnReturn(i, log) ==
    [conn EXCEPT !.pc = "returned", !.from = conn.pc, !.ret = <<i>>,
                 !.log = log]

connVars == <<sched, call, pc, started, stop_chan, shutdown, idle_interrupt,
              info, jobs_loaded, InboxWatch, first, net, acctVars, ephVars>>

\* scheduler.rs 130-136, 159-162: the folder is read from the configuration;
\* unset -> fake_idle(None); connect_configured failed -> fake_idle(Some);
\* otherwise the fetch begins
FetchIdle(folderSet, connectOk) ==
    /\ ConnCall("fetch_idle", folderSet, FetchIdleEntry(folderSet, connectOk),
                IF ~folderSet THEN <<>>
                ELSE IF connectOk THEN <<"connect ok">> ELSE <<"connect err">>)
    /\ UNCHANGED connVars

\* scheduler.rs 139-157: the fetch is over, an error triggers a reconnect;
\* then idle when the connection can idle, fake_idle otherwise
FetchIdleFetched(fetchOk, canIdle) ==
    /\ conn.pc = "fetching"
    /\ conn' = [conn EXCEPT
                   !.pc = IF canIdle THEN "idle" ELSE "fake_idle",
                   !.can_idle = canIdle,
                   !.log = @ \o (IF fetchOk THEN <<"fetch ok">>
                                 ELSE <<"fetch err", "trigger_reconnect">>)]
    /\ UNCHANGED connVars

\* scheduler.rs 147-154: unwrap_or_else on the Result of Imap::idle
IdleResult(ok, i) ==
    IF ok
    THEN [ConnReturn(i, conn.log) EXCEPT !.idle = "ok"]
    ELSE [ConnReturn(new(FALSE, 0), Append(conn.log, "trigger_reconnect"))
             EXCEPT !.idle = "err"]

\* idle.rs 25-58, 76-98: Imap::idle ends without having read the interrupt
\* channel: an error before the wait (Err), an unsolicited EXISTS
\* (Ok(default)), or a response, timeout or error of the wait, after which
\* handle.done() decides between Ok(default) and Err
IdleEnds(ok) ==
    /\ conn.pc = "idle"
    /\ conn' = IdleResult(ok, Default)
    /\ UNCHANGED connVars

\* idle.rs 68-74, 86-98: the interrupt channel wins the race; the envelope
\* is returned unless handle.done() fails
IdleInterrupted(doneOk) ==
    /\ conn.pc = "idle"
    /\ conn.chan # <<>>
    /\ conn' = [IdleResult(doneOk, Head(conn.chan)) EXCEPT
                   !.chan = <<>>, !.got = <<Head(conn.chan)>>]
    /\ UNCHANGED connVars

\* scheduler.rs 93: the inbox loop without InboxWatch calls fake_idle(None);
\* fetch_idle passes Some(folder)
FakeIdle(watch_folder) ==
    /\ ConnCall("fake_idle", watch_folder,
                IF watch_folder THEN "fake_idle" ELSE "wait", <<>>)
    /\ UNCHANGED connVars

\* mutant of TickBreaks: the poll ends as soon as the connect succeeded
TickBreaksOnConnect(connectOk, canIdle, fetched) == connectOk

\* idle.rs 149-176: a tick breaks the polling loop when the connect succeeded
\* and the server can idle or fetch_new_messages returned Ok(true)
TickBreaks(connectOk, canIdle, fetched) ==
    connectOk /\ (canIdle \/ fetched = "true")

\* the calls one poll tick makes
TickLog(connectOk, canIdle, fetched) ==
    IF ~connectOk THEN <<"connect err">>
    ELSE IF canIdle THEN <<"connect ok">>
    ELSE IF fetched = "err"
         THEN <<"connect ok", "fetch_new_messages err", "trigger_reconnect">>
    ELSE <<"connect ok", "fetch_new_messages " \o fetched>>

\* idle.rs 145-176: Event::Tick
FakeIdleTicked(connectOk, canIdle, fetched) ==
    /\ conn.pc = "fake_idle"
    /\ Len(conn.polls) < MaxTicks
    /\ LET poll == [connect |-> connectOk, can_idle |-> canIdle,
                    fetched |-> fetched]
           log == conn.log \o TickLog(connectOk, canIdle, fetched)
       IN conn' = [(IF TickBreaks(connectOk, canIdle, fetched)
                    THEN ConnReturn(new(FALSE, 0), log)
                    ELSE [conn EXCEPT !.log = log])
                     EXCEPT !.polls = Append(conn.polls, poll)]
    /\ UNCHANGED connVars

\* idle.rs 117-120 and 177-180: the receive on the idle-interrupt channel
\* completes, in fake_idle(None) or as Event::Interrupt of the polling loop
FakeIdleInterrupted ==
    /\ conn.pc \in {"wait", "fake_idle"}
    /\ conn.chan # <<>>
    /\ conn' = [ConnReturn(Head(conn.chan), conn.log) EXCEPT
                   !.chan = <<>>, !.got = <<Head(conn.chan)>>]
    /\ UNCHANGED connVars

\* ConnectionState::interrupt on the sender of this connection
ConnInterrupt(i) ==
    /\ conn' = [conn EXCEPT !.chan = try_send(conn.chan, i)]
    /\ conn' # conn
    /\ UNCHANGED connVars

ConnNext ==
    \/ \E f, c \in BOOLEAN : FetchIdle(f, c)
    \/ \E o, i \in BOOLEAN : FetchIdleFetched(o, i)
    \/ \E o \in BOOLEAN : IdleEnds(o)
    \/ \E d \in BOOLEAN : IdleInterrupted(d)
    \/ \E w \in BOOLEAN : FakeIdle(w)
    \/ \E c, i \in BOOLEAN, f \in {"true", "false", "err"} :
          FakeIdleTicked(c, i, f)
    \/ FakeIdleInterrupted
    \/ \E i \in InterruptInfo : ConnInterrupt(i)

ConnSpec == Init /\ [][ConnNext]_vars

\* C37: fetch_idle with the folder unset does fake_idle(None) and nothing
\* else; after a failed connect_configured it does fake_idle(Some(folder))
\* without a fetch; otherwise it fetches, a fetch error triggers a reconnect
\* and the call goes on, into idle when the session can idle and into
\* fake_idle(Some(folder)) otherwise; an Err of idle triggers a reconnect
\* and fetch_idle returns the default InterruptInfo.
C37_FetchIdleDispatch ==
    conn.op = "fetch_idle" =>
        LET log == conn.log
            first_wait == IF conn.pc = "returned" THEN conn.from ELSE conn.pc
        IN /\ ~conn.folder => log = <<>> /\ first_wait = "wait"
           /\ (conn.folder /\ log[1] = "connect err") =>
                 /\ first_wait = "fake_idle"
                 /\ \A k \in DOMAIN log : log[k] \notin {"fetch ok", "fetch err"}
           /\ (conn.folder /\ log[1] = "connect ok") =>
                 \/ conn.pc = "fetching" /\ log = <<"connect ok">>
                 \/ /\ log[2] = "fetch ok"
                    /\ first_wait = IF conn.can_idle THEN "idle" ELSE "fake_idle"
                 \/ /\ log[2] = "fetch err"
                    /\ log[3] = "trigger_reconnect"
                    /\ first_wait = IF conn.can_idle THEN "idle" ELSE "fake_idle"
           /\ conn.idle = "err" =>
                 /\ conn.pc = "returned"
                 /\ conn.from = "idle"
                 /\ conn.ret = <<new(FALSE, 0)>>
                 /\ log[Len(log)] = "trigger_reconnect"
                 /\ Len(log) = IF log[2] = "fetch err" THEN 4 ELSE 3
           /\ conn.idle = "ok" =>
                 /\ conn.pc = "returned"
                 /\ conn.from = "idle"
                 /\ conn.ret = IF conn.got = <<>> THEN <<Default>> ELSE conn.got
                 /\ Len(log) = IF log[2] = "fetch err" THEN 3 ELSE 2
           /\ conn.from = "idle" => conn.idle # "none"

\* a fetch failed, the session idled, the idle was interrupted and failed
C37_Witness ==
    /\ conn.op = "fetch_idle"
    /\ conn.log = <<"connect ok", "fetch err", "trigger_reconnect",
                    "trigger_reconnect">>
    /\ conn.idle = "err"
    /\ conn.got = <<new(FALSE, 1)>>
    /\ conn.ret = <<new(FALSE, 0)>>

\* the connect failed and the call waits in fake_idle(Some(folder))
C37_WitnessFakeIdle ==
    /\ conn.op = "fetch_idle"
    /\ conn.log = <<"connect err">>
    /\ conn.pc = "fake_idle"

\* the fake idle the connection is in or has returned from: "wait" for
\* fake_idle(None), "fake_idle" for fake_idle(Some(folder))
FakeIdleKind == IF conn.pc = "returned" THEN conn.from ELSE conn.pc

C38_WitnessNoFolder ==
    /\ conn.op = "fake_idle"
    /\ conn.from = "wait"
    /\ conn.ret = <<new(TRUE, 1)>>

\* a tick found nothing, then the interrupt ended the polling
C38_WitnessInterrupted ==
    /\ conn.from = "fake_idle"
    /\ conn.polls = <<[connect |-> TRUE, can_idle |-> FALSE, fetched |-> "false"]>>
    /\ conn.ret = <<new(FALSE, 1)>>

\* C39: whenever no call of the account manager is in progress, the ids of
\* the account map are the ids of the registry entries, whatever calls of
\* add_account, remove_account, migrate_account and import_account came
\* before and whatever they returned.
C39_MapMatchesRegistry ==
    Quiescent => accounts = Ids(inner)

(***************************************************************************)
(* One task calls start_ephemeral_timer, start_ephemeral_timers,           *)
(* delete_expired_messages and schedule_ephemeral_task, one call at a      *)
(* time, on a Context none of whose messages is armed yet and that has no  *)
(* wake task, while the clock runs and the wake tasks fire                 *)
(***************************************************************************)
CoverInit ==
    /\ SchedulerNew
    /\ InboxWatch = TRUE
    /\ AccountsNew
    /\ now = 1
    /\ \E d \in {1, 2}, s \in {"InFresh", "InSeen"} :
           msgs = [m \in MsgIds |->
                      IF m = 1 THEN Msg(10, 1, d, 0, s, "text")
                      ELSE Msg(10, 1, 2, 0, "InSeen", "text")]
    /\ chats = [c \in ChatIds |-> 0]
    /\ delete_device_after = 0
    /\ delete_server_after = Unset
    /\ ephemeral_task = 0
    /\ wake = [t \in TaskIds |-> NoTask]
    /\ events = NoEvents
    /\ ecall = [p \in EphCallers |-> NoECall]

CoverNext ==
    \/ \E m \in MsgIds : StartEphemeralTimer(1, m)
    \/ StartEphemeralTimers(1)
    \/ DeleteExpiredMessages(1)
    \/ ScheduleEphemeralTask(1)
    \/ ArmSteps(1)
    \/ SweepSteps(1)
    \/ ScheduleSteps(1)
    \/ \E t \in TaskIds : WakeFire(t)
    \/ Tick

CoverSpec == CoverInit /\ [][CoverNext]_vars

\* the messages outside the trash whose expiry is still to be announced:
\* ephemeral_timestamp T is set and T + 1 lies in the future
Due == {m \in Armed : msgs[m].ephemeral_timestamp + 1 > now}

\* C40: whenever no call of the engine is in progress and some message
\* outside the trash has an ephemeral_timestamp T with T + 1 in the future,
\* the field ephemeral_task holds a wake task that is alive and that fires
\* no later than the earliest such T, plus one.
C40_WakeCoverage ==
    (EQuiescent /\ Due # {}) =>
        /\ ephemeral_task # 0
        /\ wake[ephemeral_task].alive
        /\ \A m \in Due :
              wake[ephemeral_task].until <= msgs[m].ephemeral_timestamp + 1

============================================================================
